---- MODULE Spec2Model ----
(***************************************************************************)
(* A model of lepton_jpeg_go: the adaptive Branch cell, the zigzag /       *)
(* transposed block conversions, the JPEG BitWriter, the VP8 boolean       *)
(* coder, the JPEG and Lepton header parsers and the Encode / DecodeLepton *)
(* pipeline.  Each part has its own variables and its own specification;   *)
(* a specification leaves the variables of the other parts at their idle   *)
(* values.                                                                 *)
(***************************************************************************)
EXTENDS Integers, Sequences, FiniteSets, TLC

VARIABLES
    brCounts, brPrev, brBit, brPc,          \* Branch.counts before/after one RecordAndUpdateBit
    zzIn, zzTr, zzOut, zzPc,                \* a zigzag block, its transposed form, and the way back
    bwBuf, bwReg, bwCur,                    \* BitWriter.dataBuffer, fillRegister, currentBit
    bwOut, bwLog, bwPc,                     \* bytes handed out by DetachBuffer; the calls made so far
    vpxProg, vpxW, vpxBytes, vpxR, vpxPc,   \* operations to code, VPXBoolWriter, its bytes, VPXBoolReader
    jpDesc, jpIn, jpPc,                     \* a JPEG file: its description, its bytes, the step reached
    jpRead, jpEnc, jpFile, jpDec, jpVer,    \* results of ReadJpegFile, Encode, DecodeLepton (on jpFile), EncodeVerify
    lhDesc, lhIn, lhPc, lhRes,              \* a Lepton file and the result of ReadLeptonHeader
    dmN, dmBlocks, dmStream, dmOut, dmPc,   \* partitions, blocks emitted, the multiplexed bytes, the demultiplexer's data
    scFrame, scRead, scWrite,               \* a frame and scan, the header the reader parsed, the one the writer parsed
    scPos, scSta, scVisited, scExpired,     \* the reader's JpegPositionState, its last status, the positions it decoded at, where restarts expired
    scWritten,                              \* what the scan writer wrote
    pgScan, pgRead, pgWrite,                \* a progressive AC scan, the header the reader parsed, the one the writer parsed
    pgPos, pgSta, pgErr, pgStream, pgImage, \* the reader's JpegPositionState, status and error, what it has read, the bands it decoded
    pgLast, pgOut,                          \* what the last round of the reader met, what the scan writer wrote
    cfQt, cfImage, cfEnc, cfStream, cfDec, cfPending,  \* a component's table, the blocks coded, the encoder, the coded bits not yet read, the decoder
    rdData, rdR, rdPad,                     \* the bytes given to a BitReader, the reader, the pad bit learned
    rdSeg, rdHave, rdK, rdCalls,            \* where the entropy segment being read starts, the bits taken from it, the markers consumed, the reads made
    rdLast, rdErr, rdEof,                   \* the last call with the reader before it, the error that ended the reading, whether IsEOF was seen true
    bnCounts, bnPrev, bnBit,                \* a Branch of a Model in use: its counts, the counts before the last update, the bit recorded
    dcActual, dcPredicted, dcResidual,      \* a block's DC, the DC predicted for it, the residual the encoder codes
    dcFinal, dcPc,                          \* the DC the decoder sets, the step reached
    ccQt, ccCtx, ccCoef,                    \* a component's table, the place and context of a coefficient, the coefficient
    ccEnc, ccDec, ccPc,                     \* the writer after coding it, the reader after reading it, the step reached
    qnTable, qnPos, qnQt,                   \* a quantization table in zigzag order, an edge position, the tables built
    qnCoef, qnEnc, qnPc,                    \* the edge coefficient coded there, the writer after it, the step reached
    rwWho, rwGeom, rwMaxCoded, rwSizes,     \* EncodeRowRange or DecodeRowRange, the components' geometry, coded heights, sizes in blocks
    rwMinY, rwMaxY, rwIndex, rwIsTopRow,    \* the luma rows asked for, decodeIndex, isTopRow per component
    rwCache, rwRows, rwSpec, rwLast, rwPc,  \* neighborSummaryCache, the rows processed, the last RowSpec, the last row's blocks, the place in the loop
    capHeader, capImages, capLimit,         \* a Lepton header marking early EOF, the decoded blocks, maxScanBytes of the writer
    capScan, capOut, capPc,                 \* the bytes the scan writer emitted, the bytes of the output file, the step reached
    ptHeader, ptCounts, ptImages,           \* a Lepton header of several thread handoffs, its RestartCounts, the decoded blocks
    ptConsistent, ptRes, ptPc               \* whether the handoffs are those of the undivided scan, the writer's result, the step reached

branchVars == <<brCounts, brPrev, brBit, brPc>>
zigzagVars == <<zzIn, zzTr, zzOut, zzPc>>
bitWriterVars == <<bwBuf, bwReg, bwCur, bwOut, bwLog, bwPc>>
vpxVars == <<vpxProg, vpxW, vpxBytes, vpxR, vpxPc>>
jpegVars == <<jpDesc, jpIn, jpPc, jpRead, jpEnc, jpFile, jpDec, jpVer>>
leptonHeaderVars == <<lhDesc, lhIn, lhPc, lhRes>>
demuxVars == <<dmN, dmBlocks, dmStream, dmOut, dmPc>>
scanVars == <<scFrame, scRead, scWrite, scPos, scSta, scVisited, scExpired, scWritten>>
progVars == <<pgScan, pgRead, pgWrite, pgPos, pgSta, pgErr, pgStream, pgImage, pgLast, pgOut>>
coefVars == <<cfQt, cfImage, cfEnc, cfStream, cfDec, cfPending>>
bitReaderVars == <<rdData, rdR, rdPad, rdSeg, rdHave, rdK, rdCalls, rdLast, rdErr, rdEof>>
branchRunVars == <<bnCounts, bnPrev, bnBit>>
dcPredictVars == <<dcActual, dcPredicted, dcResidual, dcFinal, dcPc>>
coefCodeVars == <<ccQt, ccCtx, ccCoef, ccEnc, ccDec, ccPc>>
quantVars == <<qnTable, qnPos, qnQt, qnCoef, qnEnc, qnPc>>
rowsVars == <<rwWho, rwGeom, rwMaxCoded, rwSizes, rwMinY, rwMaxY, rwIndex, rwIsTopRow, rwCache, rwRows, rwSpec, rwLast, rwPc>>
scanCapVars == <<capHeader, capImages, capLimit, capScan, capOut, capPc>>
partVars == <<ptHeader, ptCounts, ptImages, ptConsistent, ptRes, ptPc>>
vars == <<branchVars, zigzagVars, bitWriterVars, vpxVars, jpegVars, leptonHeaderVars, demuxVars, scanVars, progVars, coefVars, bitReaderVars, branchRunVars, dcPredictVars, coefCodeVars, quantVars, rowsVars, scanCapVars, partVars>>

(***************************************************************************)
(* Fixed-width integer helpers (Go's uint8/uint16/uint32 operators).       *)
(***************************************************************************)
\* 1 << n for 0 <= n <= 30.
Pow2(n) ==
    << 1, 2, 4, 8, 16, 32, 64, 128, 256, 512, 1024, 2048, 4096, 8192, 16384, 32768,
       65536, 131072, 262144, 524288, 1048576, 2097152, 4194304, 8388608, 16777216,
       33554432, 67108864, 134217728, 268435456, 536870912, 1073741824 >>[n + 1]

\* Bind(e, F) is F(e) with e evaluated once.
Bind(e, F(_)) == CHOOSE r \in {F(v) : v \in {e}} : TRUE

\* Bit i of a.
Bit(a, i) == (a \div Pow2(i)) % 2

\* a & b and a | b, for a, b < 2^16.
RECURSIVE BitAndFrom(_, _, _)
BitAndFrom(a, b, i) ==
    IF i > 15 THEN 0 ELSE Bit(a, i) * Bit(b, i) * Pow2(i) + BitAndFrom(a, b, i + 1)

BitAnd(a, b) == BitAndFrom(a, b, 0)

BitOr(a, b) == a + b - BitAnd(a, b)

Shr(a, n) == a \div Pow2(n)
Shl16(a, n) == (a * Pow2(n)) % 65536

(***************************************************************************)
(* uint64 values, kept as four 16-bit limbs <<l3, l2, l1, l0>> (l3 is the  *)
(* most significant): the model checker's integers are 32 bits wide.       *)
(***************************************************************************)
U64Zero == <<0, 0, 0, 0>>

\* uint64(v) for 0 <= v < 2^31.
U64(v) == <<0, 0, v \div 65536, v % 65536>>

\* Limb k of u, k = 0 the least significant; 0 outside the word.
U64Limb(u, k) == IF k \in 0..3 THEN u[4 - k] ELSE 0

\* u << n (Go: a shift count of 64 or more gives 0).
U64Shl(u, n) ==
    LET q == n \div 16
        r == n % 16
        L(k) == ((U64Limb(u, k - q) * Pow2(r)) % 65536)
                    + (U64Limb(u, k - q - 1) \div Pow2(16 - r))
    IN  <<L(3), L(2), L(1), L(0)>>

\* u >> n.
U64Shr(u, n) ==
    LET q == n \div 16
        r == n % 16
        L(k) == (U64Limb(u, k + q) \div Pow2(r))
                    + ((U64Limb(u, k + q + 1) % Pow2(r)) * Pow2(16 - r))
    IN  <<L(3), L(2), L(1), L(0)>>

U64Or(u, v) == [k \in 1..4 |-> BitOr(u[k], v[k])]
U64And(u, v) == [k \in 1..4 |-> BitAnd(u[k], v[k])]

\* u + v modulo 2^64.
U64Add(u, v) ==
    LET s0 == u[4] + v[4]
        s1 == u[3] + v[3] + (s0 \div 65536)
        s2 == u[2] + v[2] + (s1 \div 65536)
        s3 == u[1] + v[1] + (s2 \div 65536)
    IN  <<s3 % 65536, s2 % 65536, s1 % 65536, s0 % 65536>>

\* u - v modulo 2^64.
U64Sub(u, v) ==
    LET d0 == u[4] - v[4]
        d1 == u[3] - v[3] - (IF d0 < 0 THEN 1 ELSE 0)
        d2 == u[2] - v[2] - (IF d1 < 0 THEN 1 ELSE 0)
        d3 == u[1] - v[1] - (IF d2 < 0 THEN 1 ELSE 0)
    IN  <<(d3 + 65536) % 65536, (d2 + 65536) % 65536,
          (d1 + 65536) % 65536, (d0 + 65536) % 65536>>

\* u * p modulo 2^64, for 0 <= p < 2^15.
U64MulSmall(u, p) ==
    LET m0 == u[4] * p
        m1 == u[3] * p + (m0 \div 65536)
        m2 == u[2] * p + (m1 \div 65536)
        m3 == u[1] * p + (m2 \div 65536)
    IN  <<m3 % 65536, m2 % 65536, m1 % 65536, m0 % 65536>>

U64Ge(u, v) ==
    \/ u[1] > v[1]
    \/ u[1] = v[1] /\ u[2] > v[2]
    \/ u[1] = v[1] /\ u[2] = v[2] /\ u[3] > v[3]
    \/ u[1] = v[1] /\ u[2] = v[2] /\ u[3] = v[3] /\ u[4] >= v[4]

\* byte(u): the low 8 bits.
U64Byte(u) == u[4] % 256

RECURSIVE BitLen(_)
BitLen(n) == IF n = 0 THEN 0 ELSE 1 + BitLen(n \div 2)

RECURSIVE TrailingZeros(_)
TrailingZeros(n) == IF n % 2 = 1 THEN 0 ELSE 1 + TrailingZeros(n \div 2)

\* leadingZeros64 / trailingZeros64 (64 for 0).
U64Lz(u) ==
    IF u[1] # 0 THEN 16 - BitLen(u[1])
    ELSE IF u[2] # 0 THEN 32 - BitLen(u[2])
    ELSE IF u[3] # 0 THEN 48 - BitLen(u[3])
    ELSE 64 - BitLen(u[4])

U64Tz(u) ==
    IF u[4] # 0 THEN TrailingZeros(u[4])
    ELSE IF u[3] # 0 THEN 16 + TrailingZeros(u[3])
    ELSE IF u[2] # 0 THEN 32 + TrailingZeros(u[2])
    ELSE IF u[1] # 0 THEN 48 + TrailingZeros(u[1])
    ELSE 64

(***************************************************************************)
(* Branch (src/lepton/branch.go).                                          *)
(***************************************************************************)
NewBranch == \H0101

\* Rotate a uint16 by 8 bits: (counts >> 8) | (counts << 8).
Rotate8(counts) == BitOr(Shr(counts, 8), Shl16(counts, 8))

\* The update without the rescale on overflow of the incremented count.
RecordAndUpdateBit_NoRescale(counts, bit) ==
    LET orig == IF bit THEN Rotate8(counts) ELSE counts
        sum  == (orig + \H0100) % 65536
    IN  IF bit THEN Rotate8(sum) ELSE sum

\* The update halving the other count downwards on overflow.
RecordAndUpdateBit_HalveDown(counts, bit) ==
    Bind(IF bit THEN Rotate8(counts) ELSE counts, LAMBDA orig :
    Bind((orig + \H0100) % 65536, LAMBDA sum0 :
    Bind(sum0 < orig, LAMBDA overflow :
    Bind(IF orig = \Hff01 THEN \Hff00 ELSE \H8100, LAMBDA mask :
    Bind(IF overflow THEN BitOr(Shr(BitAnd(sum0, \Hff), 1), mask) ELSE sum0, LAMBDA sum :
        IF bit THEN Rotate8(sum) ELSE sum)))))

RecordAndUpdateBit(counts, bit) ==
    Bind(IF bit THEN Rotate8(counts) ELSE counts, LAMBDA orig :
    Bind((orig + \H0100) % 65536, LAMBDA sum0 :
    Bind(sum0 < orig, LAMBDA overflow :
    Bind(IF orig = \Hff01 THEN \Hff00 ELSE \H8100, LAMBDA mask :
    Bind(IF overflow THEN BitOr(Shr(1 + BitAnd(sum0, \Hff), 1), mask) ELSE sum0, LAMBDA sum :
        IF bit THEN Rotate8(sum) ELSE sum)))))

\* probLookup[counts], as filled by init(): uint8((a << 8) / (a + b)), entry 0 left 0.
GetProbability(counts) ==
    LET a == Shr(counts, 8)
        b == BitAnd(counts, \Hff)
    IN  IF counts >= 1 /\ a + b > 0 THEN ((a * 256) \div (a + b)) % 256 ELSE 0

BranchIdle == brCounts = NewBranch /\ brPrev = NewBranch /\ brBit = FALSE /\ brPc = "idle"

\* SetCounts: any 16-bit value can be installed before an update.
BranchInit ==
    /\ brCounts \in 0..65535
    /\ brPrev = brCounts
    /\ brBit = FALSE
    /\ brPc = "set"

BranchUpdate(bit) ==
    /\ brPc = "set"
    /\ brPrev' = brCounts
    /\ brBit' = bit
    /\ brCounts' = RecordAndUpdateBit(brCounts, bit)
    /\ brPc' = "updated"

(***************************************************************************)
(* Zigzag <-> transposed (src/lepton/model.go, jpeg_read.go, AlignedBlock) *)
(***************************************************************************)
\* Tables are 0-based in the source; here index i of the source is i + 1.
ZigzagToTransposed ==
    << 0, 8, 1, 2, 9, 16, 24, 17, 10, 3, 4, 11, 18, 25, 32, 40,
       33, 26, 19, 12, 5, 6, 13, 20, 27, 34, 41, 48, 56, 49, 42, 35,
       28, 21, 14, 7, 15, 22, 29, 36, 43, 50, 57, 58, 51, 44, 37, 30,
       23, 31, 38, 45, 52, 59, 60, 53, 46, 39, 47, 54, 61, 62, 55, 63 >>

\* zigzagToTransposed: result.RawData[ZigzagToTransposed[i]] = block[i].
zigzagToTransposed(block) ==
    [t \in 0..63 |-> block[CHOOSE i \in 0..63 : ZigzagToTransposed[i + 1] = t]]

\* The literal index list of ZigzagToTransposedBlock.
ZigzagToTransposedBlockIdx ==
    << 0, 2, 3, 9, 10, 20, 21, 35,
       1, 4, 8, 11, 19, 22, 34, 36,
       5, 7, 12, 18, 23, 33, 37, 48,
       6, 13, 17, 24, 32, 38, 47, 49,
       14, 16, 25, 31, 39, 46, 50, 57,
       15, 26, 30, 40, 45, 51, 56, 58,
       27, 29, 41, 44, 52, 55, 59, 62,
       28, 42, 43, 53, 54, 60, 61, 63 >>

ZigzagToTransposedBlock(a) == [t \in 0..63 |-> a[ZigzagToTransposedBlockIdx[t + 1]]]

\* The literal index list of AlignedBlock.ZigzagFromTransposed.
ZigzagFromTransposedIdx ==
    << 0, 8, 1, 2, 9, 16, 24, 17,
       10, 3, 4, 11, 18, 25, 32, 40,
       33, 26, 19, 12, 5, 6, 13, 20,
       27, 34, 41, 48, 56, 49, 42, 35,
       28, 21, 14, 7, 15, 22, 29, 36,
       43, 50, 57, 58, 51, 44, 37, 30,
       23, 31, 38, 45, 52, 59, 60, 53,
       46, 39, 47, 54, 61, 62, 55, 63 >>

\* The way back taken through the table of the forward direction.
ZigzagFromTransposed_ForwardTable(a) == [z \in 0..63 |-> a[ZigzagToTransposedBlockIdx[z + 1]]]

ZigzagFromTransposed(a) == [z \in 0..63 |-> a[ZigzagFromTransposedIdx[z + 1]]]

ZeroBlock == [i \in 0..63 |-> 0]

\* Blocks tried: one coefficient set, or all 64 coefficients distinct.
ZigzagBlocks ==
    {[i \in 0..63 |-> IF i = k THEN v ELSE 0] : k \in 0..63, v \in {-1, 1023}}
        \cup {[i \in 0..63 |-> i - 31], [i \in 0..63 |-> 64 - i]}

ZigzagIdle == zzIn = <<>> /\ zzTr = <<>> /\ zzOut = <<>> /\ zzPc = "idle"

ZigzagInit ==
    /\ zzIn \in ZigzagBlocks
    /\ zzTr = ZeroBlock
    /\ zzOut = ZeroBlock
    /\ zzPc = "zigzag"

\* The reader's conversion (readBaselineScan).
ZigzagConvertLoop ==
    /\ zzPc = "zigzag"
    /\ zzTr' = zigzagToTransposed(zzIn)
    /\ zzPc' = "transposed"
    /\ UNCHANGED <<zzIn, zzOut>>

\* The literal-table conversion (ZigzagToTransposedBlock).
ZigzagConvertTable ==
    /\ zzPc = "zigzag"
    /\ zzTr' = ZigzagToTransposedBlock(zzIn)
    /\ zzPc' = "transposed"
    /\ UNCHANGED <<zzIn, zzOut>>

ZigzagBack ==
    /\ zzPc = "transposed"
    /\ zzOut' = ZigzagFromTransposed(zzTr)
    /\ zzPc' = "back"
    /\ UNCHANGED <<zzIn, zzTr>>

(***************************************************************************)
(* BitWriter (src/lepton/branch.go).  A writer is a record of its three    *)
(* fields.                                                                 *)
(***************************************************************************)
NewBitWriter == [dataBuffer |-> <<>>, fillRegister |-> U64Zero, currentBit |-> 64]

\* append(dataBuffer, b) with the escape left out.
AppendFFEncoded_NoEscape(buf, b) == Append(buf, b)

\* append(dataBuffer, b), followed by 0x00 when b is 0xFF.
AppendFFEncoded(buf, b) == IF b = 255 THEN buf \o <<255, 0>> ELSE Append(buf, b)

\* writeFFEncoded: the 8 bytes of fill, most significant first.
RECURSIVE writeFFEncodedFrom(_, _, _)
writeFFEncodedFrom(buf, fill, i) ==
    IF i = 8 THEN buf
    ELSE Bind(AppendFFEncoded(buf, U64Byte(U64Shr(fill, 56 - (i * 8)))),
              LAMBDA next : writeFFEncodedFrom(next, fill, i + 1))

\* Write(val, numBits), val < 2^31.
Write(w, val, numBits) ==
    IF numBits = 0 THEN w
    ELSE IF numBits <= w.currentBit
    THEN [w EXCEPT !.fillRegister = U64Or(w.fillRegister, U64Shl(U64(val), w.currentBit - numBits)),
                   !.currentBit = w.currentBit - numBits]
    ELSE LET leftoverNewBits == numBits - w.currentBit
             leftoverVal     == IF leftoverNewBits >= 31 THEN val ELSE val % Pow2(leftoverNewBits)
         IN  Bind(U64Or(w.fillRegister, U64Shr(U64(val), numBits - w.currentBit)), LAMBDA fill :
                 [dataBuffer   |-> writeFFEncodedFrom(w.dataBuffer, fill, 0),
                  fillRegister |-> U64Shl(U64(leftoverVal), 64 - leftoverNewBits),
                  currentBit   |-> 64 - leftoverNewBits])

\* WriteByte and WriteByteUnescaped both append b to dataBuffer as it is.
WriteByte(w, b) == [w EXCEPT !.dataBuffer = Append(w.dataBuffer, b)]
WriteByteUnescaped(w, b) == [w EXCEPT !.dataBuffer = Append(w.dataBuffer, b)]

RECURSIVE flushWholeBytes(_)
flushWholeBytes(w) ==
    IF w.currentBit <= 56
    THEN Bind([dataBuffer   |-> AppendFFEncoded(w.dataBuffer, U64Byte(U64Shr(w.fillRegister, 56))),
               fillRegister |-> U64Shl(w.fillRegister, 8),
               currentBit   |-> w.currentBit + 8],
              LAMBDA next : flushWholeBytes(next))
    ELSE w

\* The loop of Pad: one bit of fillBit per round, from its least significant bit up.
RECURSIVE PadLoop(_, _, _)
PadLoop(w, fillBit, offset) ==
    IF w.currentBit % 8 # 0
    THEN Bind(Write(w, IF BitAnd(fillBit, offset % 256) # 0 THEN 1 ELSE 0, 1),
              LAMBDA next : PadLoop(next, fillBit, offset * 2))
    ELSE w

Pad(w, fillBit) == Bind(PadLoop(w, fillBit, 1), LAMBDA padded : flushWholeBytes(padded))

\* DetachBuffer: the bytes returned, and the writer left behind.
DetachBufferResult(w) == flushWholeBytes(w).dataBuffer
DetachBufferWriter == [dataBuffer |-> <<>>, fillRegister |-> U64Zero, currentBit |-> 64]

HasNoRemainder(w) == w.currentBit = 64

bwWriter == [dataBuffer |-> bwBuf, fillRegister |-> bwReg, currentBit |-> bwCur]

BitWriterIdle ==
    /\ bwBuf = <<>> /\ bwReg = U64Zero /\ bwCur = 64
    /\ bwOut = <<>> /\ bwLog = <<>> /\ bwPc = "idle"

BitWriterInit ==
    /\ bwBuf = NewBitWriter.dataBuffer
    /\ bwReg = NewBitWriter.fillRegister
    /\ bwCur = NewBitWriter.currentBit
    /\ bwOut = <<>> /\ bwLog = <<>> /\ bwPc = "open"

\* Calls made on one writer before DetachBuffer.
MaxBitWriterCalls == 5

\* (val, numBits) pairs written; val < 2^numBits.
BitWriterWrites ==
    {<<1, 1>>, <<\H7fffffff, 31>>, <<\H2aff00ff, 31>>}
BitWriterFills == {0, 255}
BitWriterBytes == {255}

BwInstall(next, entry) ==
    /\ \E w \in {next} :
          /\ bwBuf' = w.dataBuffer
          /\ bwReg' = w.fillRegister
          /\ bwCur' = w.currentBit
    /\ bwLog' = Append(bwLog, entry)
    /\ UNCHANGED <<bwOut, bwPc>>

BwCanCall == bwPc = "open" /\ Len(bwLog) < MaxBitWriterCalls

BwWrite ==
    /\ BwCanCall
    /\ \E vn \in BitWriterWrites :
          BwInstall(Write(bwWriter, vn[1], vn[2]), <<"Write", vn[1], vn[2]>>)

BwPad ==
    /\ BwCanCall
    /\ \E f \in BitWriterFills : BwInstall(Pad(bwWriter, f), <<"Pad", f, 0>>)

BwWriteByte ==
    /\ BwCanCall
    /\ \E b \in BitWriterBytes : BwInstall(WriteByte(bwWriter, b), <<"WriteByte", b, 0>>)

BwWriteByteUnescaped ==
    /\ BwCanCall
    /\ \E b \in BitWriterBytes :
          BwInstall(WriteByteUnescaped(bwWriter, b), <<"WriteByteUnescaped", b, 0>>)

BwDetachBuffer ==
    /\ bwPc = "open"
    /\ bwOut' = DetachBufferResult(bwWriter)
    /\ bwBuf' = DetachBufferWriter.dataBuffer
    /\ bwReg' = DetachBufferWriter.fillRegister
    /\ bwCur' = DetachBufferWriter.currentBit
    /\ bwPc' = "detached"
    /\ UNCHANGED bwLog

(***************************************************************************)
(* VPXBoolWriter and VPXBoolReader (src/lepton/vpx_bool_reader.go).        *)
(***************************************************************************)
leadingZeros8(x) == 8 - BitLen(x)

rotateLeft64(x, n) == U64Or(U64Shl(x, n), U64Shr(x, 64 - n))

\* carry: the last buffer index whose byte is not 0xFF (0: the loop runs off
\* the front of the buffer, an index-out-of-range panic).
RECURSIVE carryIndex(_, _)
carryIndex(buf, x) ==
    IF x = 0 THEN 0 ELSE IF buf[x] = 255 THEN carryIndex(buf, x - 1) ELSE x

\* carry that leaves the buffer as it is.
carry_Dropped(buf) == buf

carry(buf) ==
    Bind(carryIndex(buf, Len(buf)), LAMBDA x :
        [k \in 1..Len(buf) |-> IF k > x THEN 0 ELSE IF k = x THEN buf[k] + 1 ELSE buf[k]])

carryPanics(buf) == carryIndex(buf, Len(buf)) = 0

\* put: w is [lowValue, rang, buffer, panicked, flushes, carries]; the result
\* adds the updated counts of the branch.
put(bit, counts, w) ==
    Bind(1 + (((w.rang - 1) * GetProbability(counts)) \div 256), LAMBDA split :
    Bind(IF bit THEN w.rang - split ELSE split, LAMBDA range1 :
    Bind(leadingZeros8(range1 % 256), LAMBDA shift :
    Bind(U64Shl(IF bit THEN U64Add(w.lowValue, U64(split)) ELSE w.lowValue, shift), LAMBDA value2 :
        IF value2[1] < 512
        THEN [lowValue |-> value2, rang |-> range1 * Pow2(shift), buffer |-> w.buffer,
              panicked |-> w.panicked, flushes |-> w.flushes, carries |-> w.carries,
              counts |-> RecordAndUpdateBit(counts, bit)]
        ELSE Bind(U64Lz(value2) + 2, LAMBDA leftoverBits :
             Bind(rotateLeft64(value2, leftoverBits), LAMBDA vAligned :
             Bind(vAligned[4] % 2 = 1, LAMBDA doCarry :
                 [lowValue |-> U64Shr(<<0, 0, 2, vAligned[4]>>, leftoverBits),
                  rang     |-> range1 * Pow2(shift),
                  buffer   |-> (IF doCarry THEN carry(w.buffer) ELSE w.buffer)
                                   \o << vAligned[1] \div 256, vAligned[1] % 256,
                                         vAligned[2] \div 256, vAligned[2] % 256,
                                         vAligned[3] \div 256, vAligned[3] % 256 >>,
                  panicked |-> w.panicked \/ (doCarry /\ carryPanics(w.buffer)),
                  flushes  |-> w.flushes + 1,
                  carries  |-> w.carries + (IF doCarry THEN 1 ELSE 0),
                  counts   |-> RecordAndUpdateBit(counts, bit)])))))))

WriterOf(r) ==
    [lowValue |-> r.lowValue, rang |-> r.rang, buffer |-> r.buffer,
     panicked |-> r.panicked, flushes |-> r.flushes, carries |-> r.carries]

\* NewVPXBoolWriter: marker bit 1 << 9, range 255, then PutBit(false) on a dummy branch.
NewVPXBoolWriter ==
    WriterOf(put(FALSE, NewBranch,
                 [lowValue |-> U64(512), rang |-> 255, buffer |-> <<>>,
                  panicked |-> FALSE, flushes |-> 0, carries |-> 0]))

\* PutGrid over 16 branches (indexed 0..15): the loop from bit i down to 0;
\* st is [w, branches, serializedSoFar].
RECURSIVE PutGridLoop(_, _, _)
PutGridLoop(v, i, st) ==
    IF i < 0 THEN st
    ELSE Bind(Bit(v, i) = 1, LAMBDA curBit :
         Bind(put(curBit, st.branches[st.serializedSoFar], st.w), LAMBDA r :
         Bind([w        |-> WriterOf(r),
               branches |-> [st.branches EXCEPT ![st.serializedSoFar] = r.counts],
               serializedSoFar |-> 2 * st.serializedSoFar + (IF curBit THEN 1 ELSE 0)],
              LAMBDA next : PutGridLoop(v, i - 1, next))))

PutGrid(v, branches, w) ==
    Bind([w |-> w, branches |-> [k \in 0..(Len(branches) - 1) |-> branches[k + 1]],
          serializedSoFar |-> 1],
         LAMBDA st : PutGridLoop(v, (BitLen(Len(branches)) - 1) - 1, st))

\* Finish: the bytes handed to the underlying writer.
RECURSIVE FinishBytes(_, _, _, _)
FinishBytes(buf, tmpValue, shift, n) ==
    IF n = 0 THEN buf
    ELSE Bind(Append(buf, U64Byte(U64Shr(tmpValue, shift - 8))),
              LAMBDA next : FinishBytes(next, tmpValue, shift - 8, n - 1))

Finish(w) ==
    Bind(64 - U64Lz(w.lowValue) - 2, LAMBDA streamBits :
    Bind(U64Shl(w.lowValue, 63 - streamBits), LAMBDA tmpValue :
    Bind(tmpValue[1] >= 32768, LAMBDA doCarry :
    Bind(IF doCarry THEN carry(w.buffer) ELSE w.buffer, LAMBDA buffer1 :
        [bytes    |-> FinishBytes(buffer1, tmpValue, 63, (streamBits + 7) \div 8),
         panicked |-> w.panicked \/ (doCarry /\ carryPanics(w.buffer)),
         carries  |-> w.carries + (IF doCarry THEN 1 ELSE 0)]))))

One56 == <<256, 0, 0, 0>>

mulProb(tmpRange, probability) ==
    Bind(U64Sub(tmpRange, One56), LAMBDA a :
    Bind(U64Shr(a, 8), LAMBDA b :
    Bind(U64MulSmall(b, probability), LAMBDA c :
        U64Add(<<BitAnd(c[1], \Hff00), 0, 0, 0>>, One56))))

\* get: one decoded bit, the new value and range and the updated counts.
get(counts, tmpValue, tmpRange) ==
    Bind(mulProb(tmpRange, GetProbability(counts)), LAMBDA split :
    Bind(U64Ge(tmpValue, split), LAMBDA bit :
    Bind(IF bit THEN U64Sub(tmpRange, split) ELSE split, LAMBDA range1 :
    Bind(IF bit THEN U64Sub(tmpValue, split) ELSE tmpValue, LAMBDA value1 :
    Bind(U64Lz(range1), LAMBDA shift :
        [bit |-> bit, value |-> U64Shl(value1, shift), rang |-> U64Shl(range1, shift),
         counts |-> RecordAndUpdateBit(counts, bit)])))))

\* The byte loop of vpxReaderFill; it stops at the end of the stream.
RECURSIVE FillLoop(_, _, _, _)
FillLoop(tmpValue, shift, bytes, pos) ==
    IF shift > 0 /\ pos <= Len(bytes)
    THEN Bind(U64Or(tmpValue, U64Shl(U64(bytes[pos]), shift)),
              LAMBDA next : FillLoop(next, shift - 8, bytes, pos + 1))
    ELSE [value |-> tmpValue, pos |-> pos]

vpxReaderFill(tmpValue, bytes, pos) ==
    IF tmpValue[4] % 256 = 0
    THEN Bind(U64Tz(tmpValue), LAMBDA shift :
         Bind(U64And(tmpValue, U64Sub(tmpValue, U64(1))), LAMBDA unset :
         Bind(U64Or(unset, U64(Pow2(shift % 8))), LAMBDA guard :
             FillLoop(guard, shift - 7, bytes, pos))))
    ELSE [value |-> tmpValue, pos |-> pos]

\* tmpValue & valueMask == 0
NoStreamBits(tmpValue) ==
    tmpValue[1] % 256 = 0 /\ tmpValue[2] = 0 /\ tmpValue[3] = 0 /\ tmpValue[4] = 0

\* GetBit on reader rd = [value, rang, pos]; bytes is the upstream.
GetBit(counts, rd, bytes) ==
    Bind(IF NoStreamBits(rd.value) THEN vpxReaderFill(rd.value, bytes, rd.pos)
         ELSE [value |-> rd.value, pos |-> rd.pos], LAMBDA f :
    Bind(get(counts, f.value, rd.rang), LAMBDA g :
        [bit |-> g.bit, counts |-> g.counts,
         rd |-> [value |-> g.value, rang |-> g.rang, pos |-> f.pos]]))

\* The loop of GetGrid; st is [value, rang, branches, decodedSoFar].
RECURSIVE GetGridLoop(_, _)
GetGridLoop(n, st) ==
    IF n = 0 THEN st
    ELSE Bind(get(st.branches[st.decodedSoFar], st.value, st.rang), LAMBDA g :
         Bind([value |-> g.value, rang |-> g.rang,
               branches |-> [st.branches EXCEPT ![st.decodedSoFar] = g.counts],
               decodedSoFar |-> 2 * st.decodedSoFar + (IF g.bit THEN 1 ELSE 0)],
              LAMBDA next : GetGridLoop(n - 1, next)))

GetGrid(branches, rd, bytes) ==
    Bind(vpxReaderFill(rd.value, bytes, rd.pos), LAMBDA f :
    Bind([value |-> f.value, rang |-> rd.rang,
          branches |-> [k \in 0..(Len(branches) - 1) |-> branches[k + 1]],
          decodedSoFar |-> 1], LAMBDA st0 :
    Bind(GetGridLoop(BitLen(Len(branches)) - 1, st0), LAMBDA st :
        [val |-> st.decodedSoFar - Len(branches),
         branches |-> [k \in 1..Len(branches) |-> st.branches[k - 1]],
         rd |-> [value |-> st.value, rang |-> st.rang, pos |-> f.pos]])))

\* NewVPXBoolReader: guard bit, full range, then the marker bit read on a dummy branch.
NewVPXBoolReader(bytes) ==
    GetBit(NewBranch, [value |-> <<32768, 0, 0, 0>>, rang |-> <<\Hff00, 0, 0, 0>>, pos |-> 1], bytes)

FreshGrid == [k \in 1..16 |-> NewBranch]

\* Operations coded in one run.
MaxVpxOps == 24

\* An operation is <<"bit", 0 or 1>> or <<"grid", val>> with val < 16.
VpxBitOps == {<<"bit", 0>>, <<"bit", 1>>}
VpxGridOps == {<<"grid", 0>>, <<"grid", 5>>, <<"grid", 10>>, <<"grid", 15>>}

\* The operation sequences coded: a pattern of one to three operations, repeated.
VpxPatterns ==
    {<<a>> : a \in VpxBitOps \cup VpxGridOps}
        \cup {<<a, b>> : a \in VpxBitOps \cup VpxGridOps, b \in VpxBitOps \cup VpxGridOps}
        \cup {<<a, b, c>> : a \in VpxBitOps \cup {<<"grid", 10>>},
                            b \in VpxBitOps \cup {<<"grid", 5>>},
                            c \in VpxBitOps \cup {<<"grid", 15>>}}

\* Operation number k (from 0) of the run.
VpxOp(k) == vpxProg[(k % Len(vpxProg)) + 1]

VpxIdle ==
    vpxProg = <<>> /\ vpxW = <<>> /\ vpxBytes = <<>> /\ vpxR = <<>> /\ vpxPc = "idle"

VpxInit ==
    /\ vpxProg \in VpxPatterns
    /\ vpxW = [w |-> NewVPXBoolWriter, bitBranch |-> NewBranch, gridBranches |-> FreshGrid,
               written |-> <<>>]
    /\ vpxBytes = <<>>
    /\ vpxR = <<>>
    /\ vpxPc = "writing"

VpxCanPut(kind) ==
    /\ vpxPc = "writing"
    /\ Len(vpxW.written) < MaxVpxOps
    /\ VpxOp(Len(vpxW.written))[1] = kind

VpxPutBit ==
    /\ VpxCanPut("bit")
    /\ \E op \in {VpxOp(Len(vpxW.written))} :
          \E r \in {put(op[2] = 1, vpxW.bitBranch, vpxW.w)} :
             vpxW' = [vpxW EXCEPT !.w = WriterOf(r), !.bitBranch = r.counts,
                                  !.written = Append(@, op)]
    /\ UNCHANGED <<vpxProg, vpxBytes, vpxR, vpxPc>>

VpxPutGrid ==
    /\ VpxCanPut("grid")
    /\ \E op \in {VpxOp(Len(vpxW.written))} :
          \E st \in {PutGrid(op[2], vpxW.gridBranches, vpxW.w)} :
             vpxW' = [vpxW EXCEPT !.w = st.w,
                                  !.gridBranches = [k \in 1..16 |-> st.branches[k - 1]],
                                  !.written = Append(@, op)]
    /\ UNCHANGED <<vpxProg, vpxBytes, vpxR, vpxPc>>

VpxFinish ==
    /\ vpxPc = "writing"
    /\ Len(vpxW.written) >= 1
    /\ \E f \in {Finish(vpxW.w)} :
           /\ vpxBytes' = f.bytes
           /\ vpxW' = [vpxW EXCEPT !.w.panicked = f.panicked, !.w.carries = f.carries]
           /\ vpxPc' = IF f.panicked THEN "panic" ELSE "finished"
    /\ UNCHANGED <<vpxProg, vpxR>>

VpxNewReader ==
    /\ vpxPc = "finished"
    /\ \E g \in {NewVPXBoolReader(vpxBytes)} :
           /\ vpxR' = [rd |-> g.rd, bitBranch |-> NewBranch, gridBranches |-> FreshGrid,
                       got |-> <<>>]
           /\ vpxPc' = IF g.bit THEN "inconsistent" ELSE "reading"
    /\ UNCHANGED <<vpxProg, vpxW, vpxBytes>>

VpxCanGet(kind) ==
    /\ vpxPc = "reading"
    /\ Len(vpxR.got) < Len(vpxW.written)
    /\ VpxOp(Len(vpxR.got))[1] = kind

VpxAfterGet(got) == IF Len(got) = Len(vpxW.written) THEN "read" ELSE "reading"

VpxGetBit ==
    /\ VpxCanGet("bit")
    /\ \E g \in {GetBit(vpxR.bitBranch, vpxR.rd, vpxBytes)} :
       \E got \in {Append(vpxR.got, <<"bit", IF g.bit THEN 1 ELSE 0>>)} :
           /\ vpxR' = [vpxR EXCEPT !.rd = g.rd, !.bitBranch = g.counts, !.got = got]
           /\ vpxPc' = VpxAfterGet(got)
    /\ UNCHANGED <<vpxProg, vpxW, vpxBytes>>

VpxGetGrid ==
    /\ VpxCanGet("grid")
    /\ \E g \in {GetGrid(vpxR.gridBranches, vpxR.rd, vpxBytes)} :
       \E got \in {Append(vpxR.got, <<"grid", g.val>>)} :
           /\ vpxR' = [vpxR EXCEPT !.rd = g.rd, !.gridBranches = g.branches, !.got = got]
           /\ vpxPc' = VpxAfterGet(got)
    /\ UNCHANGED <<vpxProg, vpxW, vpxBytes>>

(***************************************************************************)
(* JPEG reading: ReadJpegFile and the parsers it calls (jpeg_read.go), the *)
(* BitReader and the position state.  Byte strings are sequences of        *)
(* 0..255; At and Slice are the source's 0-based s[i] and s[a:b].  A       *)
(* result carries err = "none" or the ExitCode's name; "error" is an       *)
(* error without an ExitCode (io.EOF, fmt.Errorf) and "panic" a run-time   *)
(* panic.                                                                  *)
(***************************************************************************)
At(s, i) == s[i + 1]
Slice(s, a, b) == SubSeq(s, a + 1, b)

MarkerSOI == 216
MarkerEOI == 217
MarkerSOS == 218
MarkerDQT == 219
MarkerDHT == 196
MarkerDRI == 221
MarkerSOF0 == 192
MarkerSOF1 == 193
MarkerSOF2 == 194
MarkerRST0 == 208
MaxComponents == 4
ColorChannelNumBlockTypes == 3

\* int16(x).
Int16(x) == ((x + 32768) % 65536) - 32768

MaxOf(S) == CHOOSE m \in S : \A x \in S : x <= m

RECURSIVE SumSeq(_)
SumSeq(s) == IF s = <<>> THEN 0 ELSE Head(s) + SumSeq(Tail(s))

\* A table slot that holds nil.
NoTable == [present |-> FALSE, NumCodes |-> <<>>, Symbols |-> <<>>, MaxCode |-> <<>>, ValPtr |-> <<>>]

\* NewComponentInfo: every field at its all-ones default (-1 stands for 0xffffffff).
NewComponentInfo ==
    [Jid |-> 255, Sfv |-> -1, Sfh |-> -1, QTableIndex |-> 255, Bcv |-> -1, Bch |-> -1, Bc |-> -1,
     Ncv |-> -1, Nch |-> -1, HuffDC |-> 255, HuffAC |-> 255]

\* NewJpegHeader.  The fields the modelled paths never read (quantization tables, Mbs, Sid,
\* Nc, spectral selection) are left out.
NewJpegHeader ==
    [JpegType |-> "Unknown", Height |-> 0, Width |-> 0, Cmpc |-> 0,
     CmpInfo |-> [c \in 0..3 |-> NewComponentInfo],
     MaxSfh |-> 0, MaxSfv |-> 0, Mcuh |-> 0, Mcuv |-> 0, RestartInterval |-> 0,
     HuffDC |-> [i \in 0..3 |-> NoTable], HuffAC |-> [i \in 0..3 |-> NoTable],
     ScanComponentOrder |-> <<>>]

\* The value of `code` when the loop of BuildDerivedTable enters round `bits`.
RECURSIVE huffCodeAt(_, _)
huffCodeAt(numCodes, bits) ==
    IF bits = 1 THEN 0 ELSE (huffCodeAt(numCodes, bits - 1) + numCodes[bits - 1]) * 2

\* HuffmanTable.BuildDerivedTable: MaxCode and ValPtr for the code lengths 1..16.  FastLookup
\* is left out: nextHuffCode consults it only when the BitReader holds 8 bits or more, and
\* after any Read it holds at most 7.
BuildDerivedTable(numCodes, symbols) ==
    [present |-> TRUE, NumCodes |-> numCodes, Symbols |-> symbols,
     MaxCode |-> [bits \in 1..16 |->
                     IF numCodes[bits] > 0 THEN huffCodeAt(numCodes, bits) + numCodes[bits] - 1 ELSE -1],
     ValPtr  |-> [bits \in 1..16 |->
                     SumSeq(SubSeq(numCodes, 1, bits - 1)) - huffCodeAt(numCodes, bits)]]

HeaderFail(code, header) == [err |-> code, header |-> header]

\* The component loop of parseSOFRead.
RECURSIVE parseSOFReadComponents(_, _, _, _)
parseSOFReadComponents(header, data, cmp, pos) ==
    IF cmp >= header.Cmpc THEN HeaderFail("none", header)
    ELSE IF pos + 3 > Len(data) THEN HeaderFail("UnsupportedJpeg", header)
    ELSE IF At(data, pos + 1) \div 16 > 2 \/ At(data, pos + 1) % 16 > 2
         THEN HeaderFail("SamplingBeyondTwoUnsupported", header)
    ELSE IF At(data, pos + 2) >= 4 THEN HeaderFail("UnsupportedJpeg", header)
    ELSE Bind([header EXCEPT !.CmpInfo[cmp] =
                   [@ EXCEPT !.Jid = At(data, pos), !.Sfv = At(data, pos + 1) \div 16,
                             !.Sfh = At(data, pos + 1) % 16, !.QTableIndex = At(data, pos + 2)]],
              LAMBDA h : parseSOFReadComponents(h, data, cmp + 1, pos + 3))

\* The MCU and block counts parseSOFRead derives once the components are read.
parseSOFReadGeometry(header) ==
    LET maxSfh == MaxOf({1} \cup {header.CmpInfo[c].Sfh : c \in 0..(header.Cmpc - 1)})
        maxSfv == MaxOf({1} \cup {header.CmpInfo[c].Sfv : c \in 0..(header.Cmpc - 1)})
        mcuv   == (header.Height + (maxSfh * 8) - 1) \div (maxSfh * 8)
        mcuh   == (header.Width + (maxSfv * 8) - 1) \div (maxSfv * 8)
    IN  [header EXCEPT
            !.MaxSfh = maxSfh, !.MaxSfv = maxSfv, !.Mcuv = mcuv, !.Mcuh = mcuh,
            !.CmpInfo = [c \in 0..3 |->
                IF c >= header.Cmpc THEN header.CmpInfo[c]
                ELSE [header.CmpInfo[c] EXCEPT
                         !.Bcv = mcuv * header.CmpInfo[c].Sfh,
                         !.Bch = mcuh * header.CmpInfo[c].Sfv,
                         !.Bc  = (mcuv * header.CmpInfo[c].Sfh) * (mcuh * header.CmpInfo[c].Sfv),
                         !.Ncv = ((header.Height * header.CmpInfo[c].Sfh) + ((maxSfh * 8) - 1))
                                     \div (maxSfh * 8),
                         !.Nch = ((header.Width * header.CmpInfo[c].Sfv) + ((maxSfv * 8) - 1))
                                     \div (maxSfv * 8)]]]

parseSOFRead(header, data, jpegType) ==
    IF Len(data) < 6 THEN HeaderFail("UnsupportedJpeg", header)
    ELSE IF header.JpegType # "Unknown" THEN HeaderFail("UnsupportedJpeg", header)
    ELSE IF At(data, 0) # 8 THEN HeaderFail("UnsupportedJpeg", header)
    ELSE IF (At(data, 1) * 256) + At(data, 2) = 0 \/ (At(data, 3) * 256) + At(data, 4) = 0
         THEN HeaderFail("UnsupportedJpeg", header)
    ELSE IF At(data, 5) > 4 THEN HeaderFail("UnsupportedJpeg", header)
    ELSE Bind(parseSOFReadComponents(
                  [header EXCEPT !.JpegType = jpegType,
                                 !.Height = (At(data, 1) * 256) + At(data, 2),
                                 !.Width = (At(data, 3) * 256) + At(data, 4),
                                 !.Cmpc = At(data, 5)], data, 0, 6),
              LAMBDA r : IF r.err # "none" THEN r
                         ELSE HeaderFail("none", parseSOFReadGeometry(r.header)))

RECURSIVE parseDHTReadFrom(_, _, _)
parseDHTReadFrom(header, data, pos) ==
    IF pos >= Len(data) THEN HeaderFail("none", header)
    ELSE IF (At(data, pos) \div 16) % 16 > 1 \/ At(data, pos) % 16 > 3
         THEN HeaderFail("UnsupportedJpeg", header)
    ELSE IF pos + 1 + 16 > Len(data) THEN HeaderFail("UnsupportedJpeg", header)
    ELSE Bind(Slice(data, pos + 1, pos + 17), LAMBDA numCodes :
         Bind(pos + 17 + SumSeq(numCodes), LAMBDA next :
             IF next > Len(data) THEN HeaderFail("UnsupportedJpeg", header)
             ELSE Bind(BuildDerivedTable(numCodes, Slice(data, pos + 17, next)), LAMBDA ht :
                  Bind(IF (At(data, pos) \div 16) % 16 = 0
                       THEN [header EXCEPT !.HuffDC[At(data, pos) % 16] = ht]
                       ELSE [header EXCEPT !.HuffAC[At(data, pos) % 16] = ht],
                       LAMBDA h : parseDHTReadFrom(h, data, next)))))

parseDHTRead(header, data) == parseDHTReadFrom(header, data, 0)

\* parseDQTRead: the checks only (the table values feed the coefficient coder alone).
RECURSIVE parseDQTReadFrom(_, _, _)
parseDQTReadFrom(header, data, pos) ==
    IF pos >= Len(data) THEN HeaderFail("none", header)
    ELSE IF At(data, pos) % 16 > 3 THEN HeaderFail("UnsupportedJpeg", header)
    ELSE IF (At(data, pos) \div 16) % 16 = 0
         THEN IF pos + 1 + 64 > Len(data) THEN HeaderFail("UnsupportedJpeg", header)
              ELSE parseDQTReadFrom(header, data, pos + 1 + 64)
         ELSE IF pos + 1 + 128 > Len(data) THEN HeaderFail("UnsupportedJpeg", header)
              ELSE parseDQTReadFrom(header, data, pos + 1 + 128)

parseDQTRead(header, data) == parseDQTReadFrom(header, data, 0)

\* The index of the component whose Jid is componentID, -1 when there is none.
FindComponent(header, componentID) ==
    LET found == {j \in 0..(header.Cmpc - 1) : header.CmpInfo[j].Jid = componentID}
    IN  IF found = {} THEN -1 ELSE CHOOSE j \in found : \A k \in found : j <= k

RECURSIVE parseSOSReadComponents(_, _, _, _, _)
parseSOSReadComponents(header, data, numComponents, i, pos) ==
    IF i >= numComponents
    THEN IF pos + 3 > Len(data) THEN HeaderFail("UnsupportedJpeg", header)
         ELSE HeaderFail("none", header)
    ELSE IF pos + 2 > Len(data) THEN HeaderFail("UnsupportedJpeg", header)
    ELSE Bind(FindComponent(header, At(data, pos)), LAMBDA cmpIdx :
             IF cmpIdx < 0 THEN HeaderFail("UnsupportedJpeg", header)
             ELSE Bind([header EXCEPT
                           !.ScanComponentOrder = Append(@, cmpIdx),
                           !.CmpInfo[cmpIdx] = [@ EXCEPT !.HuffDC = (At(data, pos + 1) \div 16) % 16,
                                                         !.HuffAC = At(data, pos + 1) % 16]],
                       LAMBDA h : parseSOSReadComponents(h, data, numComponents, i + 1, pos + 2)))

parseSOSRead(header, data) ==
    IF Len(data) < 1 THEN HeaderFail("UnsupportedJpeg", header)
    ELSE IF At(data, 0) = 0 THEN HeaderFail("UnsupportedJpeg", header)
    ELSE IF At(data, 0) > header.Cmpc THEN HeaderFail("UnsupportedJpeg", header)
    ELSE parseSOSReadComponents([header EXCEPT !.ScanComponentOrder = <<>>], data, At(data, 0), 0, 1)

ParseFail(code) == [err |-> code, header |-> NewJpegHeader, end |-> 0]

\* parseJpegHeaderFull from byte pos of the input: segment after segment until SOS.
RECURSIVE parseJpegHeaderFullFrom(_, _, _)
parseJpegHeaderFullFrom(header, data, pos) ==
    IF pos + 2 > Len(data) THEN ParseFail("error")
    ELSE IF At(data, pos) # 255 THEN ParseFail("UnsupportedJpeg")
    ELSE IF At(data, pos + 1) = MarkerEOI THEN ParseFail("UnsupportedJpeg")
    ELSE IF pos + 4 > Len(data) THEN ParseFail("error")
    ELSE IF (At(data, pos + 2) * 256) + At(data, pos + 3) < 2 THEN ParseFail("UnsupportedJpeg")
    ELSE Bind(pos + 2 + (At(data, pos + 2) * 256) + At(data, pos + 3), LAMBDA next :
         IF next > Len(data) THEN ParseFail("error")
         ELSE Bind(Slice(data, pos + 4, next), LAMBDA segmentData :
              Bind(CASE At(data, pos + 1) \in {MarkerSOF0, MarkerSOF1} ->
                            parseSOFRead(header, segmentData, "Sequential")
                     [] At(data, pos + 1) = MarkerSOF2 -> parseSOFRead(header, segmentData, "Progressive")
                     [] At(data, pos + 1) = MarkerDHT -> parseDHTRead(header, segmentData)
                     [] At(data, pos + 1) = MarkerDQT -> parseDQTRead(header, segmentData)
                     [] At(data, pos + 1) = MarkerDRI ->
                            HeaderFail("none",
                                IF Len(segmentData) >= 2
                                THEN [header EXCEPT !.RestartInterval =
                                         (At(segmentData, 0) * 256) + At(segmentData, 1)]
                                ELSE header)
                     [] At(data, pos + 1) = MarkerSOS -> parseSOSRead(header, segmentData)
                     [] OTHER -> HeaderFail("none", header),
                   LAMBDA r :
                       IF r.err # "none" THEN ParseFail(r.err)
                       ELSE IF At(data, pos + 1) = MarkerSOS
                            THEN [err |-> "none", header |-> r.header, end |-> next]
                            ELSE parseJpegHeaderFullFrom(r.header, data, next))))

parseJpegHeaderFull(data, pos) == parseJpegHeaderFullFrom(NewJpegHeader, data, pos)

(***************************************************************************)
(* BitReader.  r.pos is the index of the next input byte (the 4096-byte    *)
(* buffer only batches the reads).  r.bits keeps the low 24 bits of the    *)
(* 64-bit register: a Read asks for at most 16 bits while at most 7 are    *)
(* left, so nothing above bit 23 is ever looked at.                        *)
(***************************************************************************)
RegisterKept == 16777216

NewBitReader(pos) == [bits |-> 0, bitsLeft |-> 0, cpos |-> 0, eof |-> FALSE, pos |-> pos]

RECURSIVE fillRegister(_, _, _)
fillRegister(r, bitsToRead, data) ==
    IF r.bitsLeft >= bitsToRead THEN [err |-> "none", r |-> r]
    ELSE IF r.pos >= Len(data)
    THEN Bind([r EXCEPT !.eof = TRUE, !.bitsLeft = @ + 8, !.bits = (@ % (RegisterKept \div 256)) * 256],
              LAMBDA next : fillRegister(next, bitsToRead, data))
    ELSE IF At(data, r.pos) # 255
    THEN Bind([r EXCEPT !.bits = ((@ % (RegisterKept \div 256)) * 256) + At(data, r.pos),
                        !.bitsLeft = @ + 8, !.pos = @ + 1],
              LAMBDA next : fillRegister(next, bitsToRead, data))
    ELSE IF r.pos + 1 >= Len(data)
    THEN Bind([r EXCEPT !.bits = ((@ % (RegisterKept \div 256)) * 256) + 255, !.bitsLeft = @ + 8, !.pos = @ + 1],
              LAMBDA next : fillRegister(next, bitsToRead, data))
    ELSE IF At(data, r.pos + 1) = 0
    THEN Bind([r EXCEPT !.bits = ((@ % (RegisterKept \div 256)) * 256) + 255, !.bitsLeft = @ + 8, !.pos = @ + 2],
              LAMBDA next : fillRegister(next, bitsToRead, data))
    ELSE [err |-> "InvalidResetCode", r |-> [r EXCEPT !.pos = @ + 2]]

\* Read handing out the bits left in the register from the least significant end.
Read_LowBits(r, bitsToRead, data) ==
    IF bitsToRead = 0 THEN [err |-> "none", r |-> r, val |-> 0]
    ELSE Bind(fillRegister(r, bitsToRead, data), LAMBDA f :
             IF f.err # "none" THEN [err |-> f.err, r |-> f.r, val |-> 0]
             ELSE [err |-> "none", r |-> [f.r EXCEPT !.bitsLeft = @ - bitsToRead],
                   val |-> f.r.bits % Pow2(bitsToRead)])

\* BitReader.Read(bitsToRead), bitsToRead <= 16.
Read(r, bitsToRead, data) ==
    IF bitsToRead = 0 THEN [err |-> "none", r |-> r, val |-> 0]
    ELSE Bind(fillRegister(r, bitsToRead, data), LAMBDA f :
             IF f.err # "none" THEN [err |-> f.err, r |-> f.r, val |-> 0]
             ELSE [err |-> "none", r |-> [f.r EXCEPT !.bitsLeft = @ - bitsToRead],
                   val |-> (f.r.bits \div Pow2(f.r.bitsLeft - bitsToRead)) % Pow2(bitsToRead)])

\* ReadAndVerifyFillBits; padBit is -1 while no pad bit is known.
ReadAndVerifyFillBits(r, padBit, data) ==
    IF r.bitsLeft > 0 /\ ~r.eof
    THEN Bind(Read(r, r.bitsLeft, data), LAMBDA a :
             IF a.err # "none" THEN [err |-> a.err, r |-> a.r, padBit |-> padBit]
             ELSE IF padBit = -1
             THEN IF a.val = 0 THEN [err |-> "none", r |-> a.r, padBit |-> 0]
                  ELSE IF a.val = Pow2(r.bitsLeft) - 1 THEN [err |-> "none", r |-> a.r, padBit |-> 255]
                  ELSE [err |-> "InvalidPadding", r |-> a.r, padBit |-> padBit]
             ELSE IF a.val # padBit % Pow2(r.bitsLeft)
                  THEN [err |-> "InvalidPadding", r |-> a.r, padBit |-> padBit]
                  ELSE [err |-> "none", r |-> a.r, padBit |-> padBit])
    ELSE [err |-> "none", r |-> r, padBit |-> padBit]

\* VerifyResetCode with a marker number that never wraps.
VerifyResetCode_NoWrap(r, data) ==
    IF r.pos + 2 > Len(data) THEN [err |-> "error", r |-> r]
    ELSE IF At(data, r.pos) # 255 \/ At(data, r.pos + 1) # MarkerRST0 + r.cpos
    THEN [err |-> "InvalidResetCode", r |-> r]
    ELSE [err |-> "none",
          r |-> [r EXCEPT !.cpos = @ + 1, !.bits = 0, !.bitsLeft = 0, !.pos = @ + 2]]

VerifyResetCode(r, data) ==
    IF r.pos + 2 > Len(data) THEN [err |-> "error", r |-> r]
    ELSE IF At(data, r.pos) # 255 \/ At(data, r.pos + 1) # MarkerRST0 + (r.cpos % 8)
    THEN [err |-> "InvalidResetCode", r |-> r]
    ELSE [err |-> "none",
          r |-> [r EXCEPT !.cpos = @ + 1, !.bits = 0, !.bitsLeft = 0, !.pos = @ + 2]]

\* nextHuffCode, the bit-by-bit path.
RECURSIVE nextHuffCodeFrom(_, _, _, _, _)
nextHuffCodeFrom(r, data, table, code, bits) ==
    IF bits > 16 THEN [err |-> "UnsupportedJpeg", r |-> r, val |-> 0]
    ELSE Bind(Read(r, 1, data), LAMBDA b :
             IF b.err # "none" THEN [err |-> b.err, r |-> b.r, val |-> 0]
             ELSE Bind((code * 2) + b.val, LAMBDA c :
                      IF c <= table.MaxCode[bits]
                      THEN [err |-> "none", r |-> b.r,
                            val |-> IF table.ValPtr[bits] + c < Len(table.Symbols)
                                    THEN At(table.Symbols, table.ValPtr[bits] + c) ELSE 0]
                      ELSE nextHuffCodeFrom(b.r, data, table, c, bits + 1)))

nextHuffCode(r, data, table) == nextHuffCodeFrom(r, data, table, 0, 1)

decodeVLI(size, bits) ==
    IF size = 0 THEN 0
    ELSE IF bits < Pow2(size - 1) THEN Int16(bits - (Pow2(size) - 1))
    ELSE Int16(bits)

readDC(r, data, table) ==
    Bind(nextHuffCode(r, data, table), LAMBDA h :
        IF h.err # "none" \/ h.val = 0 THEN [err |-> h.err, r |-> h.r, val |-> 0]
        ELSE Bind(Read(h.r, h.val, data), LAMBDA b :
                 IF b.err # "none" THEN [err |-> b.err, r |-> b.r, val |-> 0]
                 ELSE [err |-> "none", r |-> b.r, val |-> decodeVLI(h.val, b.val)]))

readACCoef(r, data, table) ==
    Bind(nextHuffCode(r, data, table), LAMBDA h :
        IF h.err # "none" THEN [err |-> h.err, r |-> h.r, z |-> 0, coef |-> 0, isEOB |-> FALSE]
        ELSE IF h.val = 0 THEN [err |-> "none", r |-> h.r, z |-> 0, coef |-> 0, isEOB |-> TRUE]
        ELSE IF h.val % 16 = 0
        THEN [err |-> "none", r |-> h.r, z |-> h.val \div 16, coef |-> 0, isEOB |-> FALSE]
        ELSE Bind(Read(h.r, h.val % 16, data), LAMBDA b :
                 IF b.err # "none"
                 THEN [err |-> b.err, r |-> b.r, z |-> 0, coef |-> 0, isEOB |-> FALSE]
                 ELSE [err |-> "none", r |-> b.r, z |-> h.val \div 16,
                       coef |-> decodeVLI(h.val % 16, b.val), isEOB |-> FALSE]))

\* The AC loop of decodeBlockSeq, from coefficient pos on.
RECURSIVE decodeBlockSeqAC(_, _, _, _, _)
decodeBlockSeqAC(r, data, acTable, block, pos) ==
    IF pos >= 64 THEN [err |-> "none", r |-> r, block |-> block, eob |-> 64]
    ELSE Bind(readACCoef(r, data, acTable), LAMBDA a :
             IF a.err # "none" THEN [err |-> a.err, r |-> a.r, block |-> block, eob |-> 64]
             ELSE IF a.isEOB THEN [err |-> "none", r |-> a.r, block |-> block, eob |-> pos]
             ELSE IF a.z + pos >= 64
             THEN [err |-> IF ~a.r.eof THEN "UnsupportedJpeg" ELSE "none",
                   r |-> a.r, block |-> block, eob |-> 64]
             ELSE Bind([block EXCEPT ![pos + a.z] = a.coef],
                       LAMBDA b : decodeBlockSeqAC(a.r, data, acTable, b, pos + a.z + 1)))

decodeBlockSeq(r, data, header, cmp) ==
    IF header.CmpInfo[cmp].HuffDC > 3 \/ header.CmpInfo[cmp].HuffAC > 3
    THEN [err |-> "panic", r |-> r, block |-> ZeroBlock, eob |-> 64]
    ELSE IF ~header.HuffDC[header.CmpInfo[cmp].HuffDC].present
            \/ ~header.HuffAC[header.CmpInfo[cmp].HuffAC].present
    THEN [err |-> "UnsupportedJpeg", r |-> r, block |-> ZeroBlock, eob |-> 64]
    ELSE Bind(readDC(r, data, header.HuffDC[header.CmpInfo[cmp].HuffDC]), LAMBDA dc :
             IF dc.err # "none" THEN [err |-> dc.err, r |-> dc.r, block |-> ZeroBlock, eob |-> 64]
             ELSE decodeBlockSeqAC(dc.r, data, header.HuffAC[header.CmpInfo[cmp].HuffAC],
                                   [ZeroBlock EXCEPT ![0] = dc.val], 1))

(***************************************************************************)
(* JpegPositionState (jpeg_position_state.go), created at MCU 0.            *)
(***************************************************************************)
NewJpegPositionState(jh) ==
    [cmp |-> jh.ScanComponentOrder[1], mcu |-> 0, csc |-> 0, sub |-> 0, dpos |-> 0,
     rstw |-> jh.RestartInterval, Eobrun |-> 0, PrevEobrun |-> 0]

\* ResetRstw.
ResetRstw(jh, s) == [s EXCEPT !.rstw = jh.RestartInterval, !.PrevEobrun = 0]

\* nextMcuPosNonInterleaved: the state after the step and the status it returns.
nextMcuPosNonInterleaved(jh, s) ==
    LET ci == jh.CmpInfo[s.cmp]
        d1 == s.dpos + 1
        d2 == IF ci.Bch # ci.Nch /\ d1 % ci.Bch = ci.Nch THEN d1 + (ci.Bch - ci.Nch) ELSE d1
        d3 == IF ci.Bcv # ci.Ncv /\ d2 \div ci.Bch = ci.Ncv THEN ci.Bc ELSE d2
        mcu == IF jh.JpegType = "Sequential" THEN d3 \div (ci.Sfv * ci.Sfh) ELSE s.mcu
    IN  IF d3 >= ci.Bc
        THEN [sta |-> "ScanCompleted", s |-> [s EXCEPT !.dpos = d3, !.mcu = mcu]]
        ELSE IF jh.RestartInterval > 0
        THEN [sta |-> IF s.rstw - 1 = 0 THEN "RestartIntervalExpired" ELSE "DecodeInProgress",
              s |-> [s EXCEPT !.dpos = d3, !.mcu = mcu, !.rstw = @ - 1]]
        ELSE [sta |-> "DecodeInProgress", s |-> [s EXCEPT !.dpos = d3, !.mcu = mcu]]

\* NextMcuPos: the state after the step and the status it returns.  Mbs is Sfv * Sfh.
NextMcuPos(jh, s) ==
    IF Len(jh.ScanComponentOrder) = 1 THEN nextMcuPosNonInterleaved(jh, s)
    ELSE LET order  == jh.ScanComponentOrder
             wrap   == s.sub + 1 >= jh.CmpInfo[s.cmp].Sfv * jh.CmpInfo[s.cmp].Sfh
             newMcu == wrap /\ s.csc + 1 >= Len(order)
             sub    == IF wrap THEN 0 ELSE s.sub + 1
             csc    == IF newMcu THEN 0 ELSE IF wrap THEN s.csc + 1 ELSE s.csc
             cmp    == IF wrap THEN order[csc + 1] ELSE s.cmp
             mcu    == IF newMcu THEN s.mcu + 1 ELSE s.mcu
             done   == newMcu /\ mcu >= jh.Mcuh * jh.Mcuv
             count  == newMcu /\ ~done /\ jh.RestartInterval > 0
             sfh    == jh.CmpInfo[cmp].Sfh
             sfv    == jh.CmpInfo[cmp].Sfv
             dpos   == IF sfh > 1
                       THEN ((((mcu \div jh.Mcuh) * sfh) + (sub \div sfv)) * jh.CmpInfo[cmp].Bch)
                                + ((mcu % jh.Mcuh) * sfv) + (sub % sfv)
                       ELSE IF sfv > 1 THEN (mcu * (sfv * sfh)) + sub
                       ELSE mcu
         IN  [sta |-> IF done THEN "ScanCompleted"
                      ELSE IF count /\ s.rstw - 1 = 0 THEN "RestartIntervalExpired"
                      ELSE "DecodeInProgress",
              s |-> [s EXCEPT !.cmp = cmp, !.mcu = mcu, !.csc = csc, !.sub = sub, !.dpos = dpos,
                              !.rstw = IF count THEN @ - 1 ELSE @]]

\* SkipEobrun on a scan of one component: the status or the error, and the state.
SkipEobrun(jh, s) ==
    LET ci == jh.CmpInfo[s.cmp]
        d1 == IF ci.Bch # ci.Nch
              THEN s.dpos + ((((s.dpos % ci.Bch) + s.Eobrun) \div ci.Nch) * (ci.Bch - ci.Nch))
              ELSE s.dpos
        d2 == IF ci.Bcv # ci.Ncv /\ d1 \div ci.Bch >= ci.Ncv
              THEN d1 + ((ci.Bcv - ci.Ncv) * ci.Bch) ELSE d1
        d3 == d2 + s.Eobrun
        rstw == IF jh.RestartInterval > 0 THEN s.rstw - s.Eobrun ELSE s.rstw
        s1 == [s EXCEPT !.rstw = rstw, !.dpos = d3, !.Eobrun = 0]
    IN  IF s.Eobrun = 0 THEN [err |-> "none", sta |-> "DecodeInProgress", s |-> s]
        ELSE IF jh.RestartInterval > 0 /\ s.Eobrun > s.rstw
        THEN [err |-> "UnsupportedJpeg", sta |-> "DecodeInProgress", s |-> s]
        ELSE IF d3 = ci.Bc THEN [err |-> "none", sta |-> "ScanCompleted", s |-> s1]
        ELSE IF d3 > ci.Bc THEN [err |-> "UnsupportedJpeg", sta |-> "DecodeInProgress", s |-> s1]
        ELSE IF jh.RestartInterval > 0 /\ rstw = 0
        THEN [err |-> "none", sta |-> "RestartIntervalExpired", s |-> s1]
        ELSE [err |-> "none", sta |-> "DecodeInProgress", s |-> s1]

\* CheckOptimalEobrun; maxEobRun is at least 1, so the uint16 subtraction does not wrap.
CheckOptimalEobrun(s, isCurrentBlockEmpty, maxEobRun) ==
    IF isCurrentBlockEmpty /\ s.PrevEobrun > 0 /\ s.PrevEobrun < maxEobRun - 1
    THEN [err |-> "UnsupportedJpeg", s |-> s]
    ELSE [err |-> "none", s |-> [s EXCEPT !.PrevEobrun = s.Eobrun]]

\* BlockBasedImage.SetBlockByDpos on the list of blocks.
RECURSIVE SetBlockByDpos(_, _, _)
SetBlockByDpos(blocks, dpos, block) ==
    IF Len(blocks) <= dpos THEN SetBlockByDpos(Append(blocks, ZeroBlock), dpos, block)
    ELSE [blocks EXCEPT ![dpos + 1] = block]

ScanFail(code) ==
    [err |-> code, blocks |-> <<>>, EarlyEOF |-> FALSE, PadBit |-> -1, MaxDPos |-> 0, end |-> 0]

\* readBaselineScan for a scan of one component: st is the loop's state (the BitReader, the
\* position, lastDC of the scan's component, the blocks stored so far, the pad bit or -1,
\* MaxDPos of the scan's component).  The partition records it also collects are not used
\* by Encode.
RECURSIVE readBaselineScanLoop(_, _, _)
readBaselineScanLoop(data, header, st0) ==
    Bind([st0 EXCEPT !.MaxDPos = IF ~st0.r.eof /\ st0.s.dpos > @ THEN st0.s.dpos ELSE @], LAMBDA st :
    Bind(decodeBlockSeq(st.r, data, header, st.s.cmp), LAMBDA d :
        IF d.err # "none" THEN ScanFail(d.err)
        ELSE IF d.eob > 1 /\ d.block[d.eob - 1] = 0 THEN ScanFail("UnsupportedJpeg")
        ELSE Bind(Int16(d.block[0] + st.lastDC), LAMBDA dc :
             Bind(SetBlockByDpos(st.blocks, st.s.dpos, zigzagToTransposed([d.block EXCEPT ![0] = dc])),
                  LAMBDA blocks :
             Bind(NextMcuPos(header, st.s), LAMBDA n :
                 IF d.r.eof
                 THEN [err |-> "none", blocks |-> blocks, EarlyEOF |-> TRUE, PadBit |-> st.PadBit,
                       MaxDPos |-> st.MaxDPos, end |-> Len(data)]
                 ELSE IF n.sta = "ScanCompleted"
                 THEN IF st.PadBit = -1
                      THEN Bind(ReadAndVerifyFillBits(d.r, -1, data), LAMBDA p :
                               IF p.err # "none" THEN ScanFail(p.err)
                               ELSE [err |-> "none", blocks |-> blocks, EarlyEOF |-> FALSE,
                                     PadBit |-> p.padBit, MaxDPos |-> st.MaxDPos, end |-> p.r.pos])
                      ELSE [err |-> "none", blocks |-> blocks, EarlyEOF |-> FALSE,
                            PadBit |-> st.PadBit, MaxDPos |-> st.MaxDPos, end |-> d.r.pos]
                 ELSE IF n.sta = "RestartIntervalExpired"
                 THEN Bind(ReadAndVerifyFillBits(d.r, st.PadBit, data), LAMBDA p :
                          IF p.err # "none" THEN ScanFail(p.err)
                          ELSE Bind(VerifyResetCode(p.r, data), LAMBDA v :
                                   IF v.err # "none" THEN ScanFail(v.err)
                                   ELSE readBaselineScanLoop(data, header,
                                            [r |-> v.r,
                                             s |-> ResetRstw(header, n.s),
                                             lastDC |-> 0, blocks |-> blocks, PadBit |-> p.padBit,
                                             MaxDPos |-> st.MaxDPos])))
                 ELSE readBaselineScanLoop(data, header,
                          [r |-> d.r, s |-> n.s, lastDC |-> dc, blocks |-> blocks,
                           PadBit |-> st.PadBit, MaxDPos |-> st.MaxDPos]))))))

readBaselineScan(data, pos, header) ==
    readBaselineScanLoop(data, header,
        [r |-> NewBitReader(pos), s |-> NewJpegPositionState(header), lastDC |-> 0,
         blocks |-> <<>>, PadBit |-> -1, MaxDPos |-> 0])

ReadFail(code) ==
    [err |-> code, returned |-> FALSE, Header |-> NewJpegHeader, RawHeader |-> <<>>,
     ImageData |-> <<>>, GarbageData |-> <<>>, EarlyEOF |-> FALSE, PadBit |-> -1, MaxDPos |-> 0]

\* The rest of ReadJpegFile once the header is accepted: the baseline scan, then every
\* byte after it as garbage.  Progressive frames and scans of several components take
\* paths outside this model; no input of the model reaches them.
readScanAndGarbage(data, hp) ==
    IF hp.header.JpegType # "Sequential" \/ Len(hp.header.ScanComponentOrder) # 1
    THEN ReadFail("NotModelled")
    ELSE Bind(readBaselineScan(data, hp.end, hp.header), LAMBDA sc :
             IF sc.err # "none" THEN ReadFail(sc.err)
             ELSE [err |-> "none", returned |-> TRUE, Header |-> hp.header,
                   RawHeader |-> Slice(data, 0, hp.end), ImageData |-> sc.blocks,
                   GarbageData |-> Slice(data, sc.end, Len(data)),
                   EarlyEOF |-> sc.EarlyEOF, PadBit |-> sc.PadBit, MaxDPos |-> sc.MaxDPos])

\* ReadJpegFile without the test on the number of components.
ReadJpegFile_NoColorCheck(data) ==
    IF Len(data) < 2 THEN ReadFail("error")
    ELSE IF At(data, 0) # 255 \/ At(data, 1) # MarkerSOI THEN ReadFail("UnsupportedJpeg")
    ELSE Bind(parseJpegHeaderFull(data, 2), LAMBDA hp :
             IF hp.err # "none" THEN ReadFail(hp.err)
             ELSE readScanAndGarbage(data, hp))

ReadJpegFile(data) ==
    IF Len(data) < 2 THEN ReadFail("error")
    ELSE IF At(data, 0) # 255 \/ At(data, 1) # MarkerSOI THEN ReadFail("UnsupportedJpeg")
    ELSE Bind(parseJpegHeaderFull(data, 2), LAMBDA hp :
             IF hp.err # "none" THEN ReadFail(hp.err)
             ELSE IF hp.header.Cmpc > ColorChannelNumBlockTypes THEN ReadFail("Unsupported4Colors")
             ELSE readScanAndGarbage(data, hp))

(***************************************************************************)
(* Encode and the Lepton container it writes.                              *)
(***************************************************************************)
LeptonFileHeader == <<207, 132>>
LeptonVersion == 1
LeptonHeaderBaselineJpegType == 90
LeptonHeaderProgressiveJpegType == 88
LeptonHeaderMarker == <<72, 68, 82>>
LeptonHeaderPadMarker == <<80, 48, 68>>
LeptonHeaderJpgRestartsMarker == <<67, 82, 83>>
LeptonHeaderJpgRestartErrorsMarker == <<70, 82, 83>>
LeptonHeaderLumaSplitMarker == <<72, 72>>
LeptonHeaderEarlyEofMarker == <<69, 69, 69>>
LeptonHeaderPrefixGarbageMarker == <<80, 71, 82>>
LeptonHeaderGarbageMarker == <<71, 82, 66>>
LeptonHeaderCompletionMarker == <<67, 77, 80>>
SOI == <<255, 216>>
EOI == <<255, 217>>

\* binary.LittleEndian: a uint32 / uint16 as bytes and back (values below 2^31).
PutUint32(v) == <<v % 256, (v \div 256) % 256, (v \div 65536) % 256, (v \div 16777216) % 256>>
PutUint16(v) == <<v % 256, (v \div 256) % 256>>
Uint32(s, pos) ==
    At(s, pos) + (At(s, pos + 1) * 256) + (At(s, pos + 2) * 65536) + (At(s, pos + 3) * 16777216)
Uint16(s, pos) == At(s, pos) + (At(s, pos + 1) * 256)

\* compress/zlib, as far as the container depends on it: a stream is a two-byte header, the
\* payload (stored, not deflated) and the payload's Adler-32; reading checks the header and
\* the checksum and gives the payload back.
\* The sum of s[lo..hi], by halves.
RECURSIVE RangeSum(_, _, _)
RangeSum(s, lo, hi) ==
    IF lo > hi THEN 0
    ELSE IF lo = hi THEN s[lo]
    ELSE RangeSum(s, lo, (lo + hi) \div 2) + RangeSum(s, ((lo + hi) \div 2) + 1, hi)

\* hash/adler32 of a payload of a few hundred bytes: a = 1 + the sum of the bytes and
\* b = the sum of the values a takes, both modulo 65521, big-endian b then a.
Adler32(payload) ==
    LET n == Len(payload)
        a == (1 + RangeSum(payload, 1, n)) % 65521
        b == (n + RangeSum([k \in 1..n |-> (n - k + 1) * payload[k]], 1, n)) % 65521
    IN  <<b \div 256, b % 256, a \div 256, a % 256>>

ZlibHeader == <<120, 156>>
ZlibWrite(payload) == ZlibHeader \o payload \o Adler32(payload)
ZlibRead(stream) ==
    IF Len(stream) < 6 \/ SubSeq(stream, 1, 2) # ZlibHeader THEN [err |-> "error", data |-> <<>>]
    ELSE Bind(SubSeq(stream, 3, Len(stream) - 4), LAMBDA payload :
             IF SubSeq(stream, Len(stream) - 3, Len(stream)) # Adler32(payload)
             THEN [err |-> "error", data |-> <<>>]
             ELSE [err |-> "none", data |-> payload])

\* LeptonEncoder.EncodeRowRange + Finish and LeptonDecoder.DecodeRowRange.  The arithmetic
\* coding of the coefficients is not modelled here: the stream is taken to give back the
\* blocks that were put in, so it is written as the blocks themselves, one byte for each
\* coefficient (an int8), blocks that were never stored being zero.
RECURSIVE FlattenBlocks(_, _)
FlattenBlocks(blocks, i) ==
    IF i > Len(blocks) THEN <<>>
    ELSE [k \in 1..64 |-> blocks[i][k - 1] % 256] \o FlattenBlocks(blocks, i + 1)

EncodeRowRange(blocks) == FlattenBlocks(blocks, 1)

DecodeRowRange(stream) ==
    [i \in 1..(Len(stream) \div 64) |->
        [k \in 0..63 |-> LET b == stream[((i - 1) * 64) + k + 1] IN IF b >= 128 THEN b - 256 ELSE b]]

\* multiplexSingleThread: blocks of up to 65536 bytes behind a header byte 0 and length - 1.
RECURSIVE multiplexSingleThread(_)
multiplexSingleThread(data) ==
    IF data = <<>> THEN <<>>
    ELSE LET blockSize == IF Len(data) > 65536 THEN 65536 ELSE Len(data)
         IN  <<0>> \o PutUint16(blockSize - 1) \o SubSeq(data, 1, blockSize)
                 \o multiplexSingleThread(SubSeq(data, blockSize + 1, Len(data)))

\* The one ThreadHandoff Encode writes: 16 bytes, all zero.
EncodeHandoff == [k \in 1..16 |-> 0]

\* writeLeptonHeader: the 28-byte fixed header, the zlib stream of the sections and CMP.
writeLeptonHeader(result, originalJpegSize) ==
    LET rawHeaderWithoutSOI ==
            IF Len(result.RawHeader) >= 2 /\ SubSeq(result.RawHeader, 1, 2) = SOI
            THEN SubSeq(result.RawHeader, 3, Len(result.RawHeader)) ELSE result.RawHeader
        garbage == IF result.GarbageData = <<>> THEN EOI ELSE result.GarbageData
        headerData ==
            LeptonHeaderMarker \o PutUint32(Len(rawHeaderWithoutSOI)) \o rawHeaderWithoutSOI
            \o LeptonHeaderPadMarker \o << IF result.PadBit = -1 THEN 0 ELSE result.PadBit >>
            \o LeptonHeaderLumaSplitMarker \o <<1>> \o EncodeHandoff
            \o LeptonHeaderGarbageMarker \o PutUint32(Len(garbage)) \o garbage
    IN  Bind(ZlibWrite(headerData), LAMBDA compressedHeader :
            LeptonFileHeader
            \o << LeptonVersion,
                  IF result.Header.JpegType = "Progressive"
                  THEN LeptonHeaderProgressiveJpegType ELSE LeptonHeaderBaselineJpegType,
                  1, 0, 0, 0, 77, 83 >>
            \o PutUint32(Len(headerData)) \o <<131, 1, 0, 0, 0, 0>>
            \o PutUint32(originalJpegSize) \o PutUint32(Len(compressedHeader))
            \o compressedHeader \o LeptonHeaderCompletionMarker)

\* Encode: the Lepton bytes written, or the error of ReadJpegFile.
Encode(jpegData) ==
    Bind(ReadJpegFile(jpegData), LAMBDA jpegResult :
        IF jpegResult.err # "none" THEN [err |-> jpegResult.err, data |-> <<>>]
        ELSE Bind(writeLeptonHeader(jpegResult, Len(jpegData)), LAMBDA head :
             Bind(multiplexSingleThread(EncodeRowRange(jpegResult.ImageData)), LAMBDA multiplexedData :
                 [err |-> "none",
                  data |-> head \o multiplexedData
                               \o PutUint32(Len(head) + Len(multiplexedData) + 4)])))

(***************************************************************************)
(* ReadLeptonHeader and the parsers of the decoder (model.go).  The        *)
(* decoder parses the raw JPEG header with its own functions, not with     *)
(* those of ReadJpegFile.  A slice or index out of range is a "panic".     *)
(***************************************************************************)
BigEndianUint16(s, pos) == (At(s, pos) * 256) + At(s, pos + 1)

\* parseSOF on data[p:].
parseSOF(header, data, p) ==
    IF Len(data) - p < 8 THEN HeaderFail("BadLeptonFile", header)
    ELSE IF At(data, p + 7) > MaxComponents THEN HeaderFail("Unsupported4Colors", header)
    ELSE IF p + 8 + (3 * At(data, p + 7)) > Len(data) THEN HeaderFail("BadLeptonFile", header)
    ELSE LET height == BigEndianUint16(data, p + 3)
             width  == BigEndianUint16(data, p + 5)
             cmpc   == At(data, p + 7)
             sfh(c) == (At(data, p + 8 + (3 * c) + 1) \div 16) % 16
             sfv(c) == At(data, p + 8 + (3 * c) + 1) % 16
             maxSfh == MaxOf({1} \cup {sfh(c) : c \in 0..(cmpc - 1)})
             maxSfv == MaxOf({1} \cup {sfv(c) : c \in 0..(cmpc - 1)})
             mcuh   == (width + (maxSfh * 8) - 1) \div (maxSfh * 8)
             mcuv   == (height + (maxSfv * 8) - 1) \div (maxSfv * 8)
         IN  HeaderFail("none",
                 [header EXCEPT
                     !.Height = height, !.Width = width, !.Cmpc = cmpc,
                     !.MaxSfh = maxSfh, !.MaxSfv = maxSfv, !.Mcuh = mcuh, !.Mcuv = mcuv,
                     !.CmpInfo = [c \in 0..3 |->
                         IF c >= cmpc THEN header.CmpInfo[c]
                         ELSE [header.CmpInfo[c] EXCEPT
                                  !.Jid = At(data, p + 8 + (3 * c)),
                                  !.QTableIndex = At(data, p + 8 + (3 * c) + 2),
                                  !.Sfh = sfh(c), !.Sfv = sfv(c),
                                  !.Bch = mcuh * sfh(c), !.Bcv = mcuv * sfv(c),
                                  !.Bc = (mcuh * sfh(c)) * (mcuv * sfv(c)),
                                  !.Nch = ((width * sfh(c)) + (maxSfh * 8) - 1) \div (maxSfh * 8),
                                  !.Ncv = ((height * sfv(c)) + (maxSfv * 8) - 1) \div (maxSfv * 8)]]])

\* parseDQT: the checks only.
RECURSIVE parseDQTFrom(_, _, _)
parseDQTFrom(header, data, pos) ==
    IF pos >= Len(data) THEN HeaderFail("none", header)
    ELSE IF At(data, pos) % 16 >= 4 THEN HeaderFail("BadLeptonFile", header)
    ELSE IF (At(data, pos) \div 16) % 16 = 0
         THEN IF pos + 1 + 64 > Len(data) THEN HeaderFail("BadLeptonFile", header)
              ELSE parseDQTFrom(header, data, pos + 1 + 64)
         ELSE IF pos + 1 + 128 > Len(data) THEN HeaderFail("BadLeptonFile", header)
              ELSE parseDQTFrom(header, data, pos + 1 + 128)

parseDQT(header, data) == parseDQTFrom(header, data, 0)

RECURSIVE parseDHTFrom(_, _, _)
parseDHTFrom(header, data, pos) ==
    IF pos >= Len(data) THEN HeaderFail("none", header)
    ELSE IF At(data, pos) % 16 >= 4 THEN HeaderFail("BadLeptonFile", header)
    ELSE IF pos + 1 + 16 > Len(data) THEN HeaderFail("BadLeptonFile", header)
    ELSE Bind(Slice(data, pos + 1, pos + 17), LAMBDA numCodes :
         Bind(pos + 17 + SumSeq(numCodes), LAMBDA next :
             IF next > Len(data) THEN HeaderFail("BadLeptonFile", header)
             ELSE Bind(BuildDerivedTable(numCodes, Slice(data, pos + 17, next)), LAMBDA ht :
                  Bind(IF (At(data, pos) \div 16) % 16 = 0
                       THEN [header EXCEPT !.HuffDC[At(data, pos) % 16] = ht]
                       ELSE [header EXCEPT !.HuffAC[At(data, pos) % 16] = ht],
                       LAMBDA h : parseDHTFrom(h, data, next)))))

parseDHT(header, data) == parseDHTFrom(header, data, 0)

\* The component loop of parseSOS on data[p:]; a component id that matches no component
\* leaves the zero of make([]int, numComponents).
RECURSIVE parseSOSComponents(_, _, _, _, _)
parseSOSComponents(header, data, numComponents, i, pos) ==
    IF i >= numComponents THEN header
    ELSE Bind(FindComponent(header, At(data, pos)), LAMBDA j :
         Bind(IF j < 0 THEN [header EXCEPT !.ScanComponentOrder = Append(@, 0)]
              ELSE [header EXCEPT
                       !.ScanComponentOrder = Append(@, j),
                       !.CmpInfo[j] = [@ EXCEPT !.HuffDC = (At(data, pos + 1) \div 16) % 16,
                                                !.HuffAC = At(data, pos + 1) % 16]],
              LAMBDA h : parseSOSComponents(h, data, numComponents, i + 1, pos + 2)))

parseSOS(header, data, p) ==
    IF Len(data) - p < 3 THEN HeaderFail("BadLeptonFile", header)
    ELSE IF Len(data) - p < 3 + (At(data, p + 2) * 2) + 3 THEN HeaderFail("BadLeptonFile", header)
    ELSE HeaderFail("none",
             parseSOSComponents([header EXCEPT !.ScanComponentOrder = <<>>],
                                data, At(data, p + 2), 0, p + 3))

ParseJpegHeaderFail(code) == [err |-> code, header |-> NewJpegHeader, readIndex |-> 0]

\* ParseJpegHeader from byte pos on: bytes are skipped up to the next 0xFF, and the byte
\* after it selects the segment parser.
RECURSIVE ParseJpegHeaderFrom(_, _, _)
ParseJpegHeaderFrom(header, data, pos) ==
    IF pos >= Len(data) THEN [err |-> "none", header |-> header, readIndex |-> pos]
    ELSE IF At(data, pos) # 255 THEN ParseJpegHeaderFrom(header, data, pos + 1)
    ELSE IF pos + 1 >= Len(data) THEN [err |-> "none", header |-> header, readIndex |-> pos]
    ELSE Bind(At(data, pos + 1), LAMBDA marker :
         Bind(pos + 2, LAMBDA p :
           CASE marker = MarkerSOI -> ParseJpegHeaderFrom(header, data, p)
             [] marker \in {MarkerSOF0, MarkerSOF1, MarkerSOF2} ->
                  Bind(parseSOF([header EXCEPT !.JpegType =
                                    IF marker = MarkerSOF2 THEN "Progressive" ELSE "Sequential"],
                                data, p),
                       LAMBDA r : IF r.err # "none" THEN ParseJpegHeaderFail(r.err)
                                  ELSE ParseJpegHeaderFrom(r.header, data,
                                                           p + BigEndianUint16(data, p)))
             [] marker \in {MarkerDQT, MarkerDHT} ->
                  IF p + 2 > Len(data) THEN ParseJpegHeaderFail("panic")
                  ELSE IF BigEndianUint16(data, p) < 2 \/ p + BigEndianUint16(data, p) > Len(data)
                  THEN ParseJpegHeaderFail("panic")
                  ELSE Bind(Slice(data, p + 2, p + BigEndianUint16(data, p)), LAMBDA segment :
                       Bind(IF marker = MarkerDQT THEN parseDQT(header, segment)
                            ELSE parseDHT(header, segment),
                            LAMBDA r : IF r.err # "none" THEN ParseJpegHeaderFail(r.err)
                                       ELSE ParseJpegHeaderFrom(r.header, data,
                                                                p + BigEndianUint16(data, p))))
             [] marker = MarkerDRI ->
                  IF p + 4 > Len(data) THEN ParseJpegHeaderFail("panic")
                  ELSE ParseJpegHeaderFrom(
                           [header EXCEPT !.RestartInterval = BigEndianUint16(data, p + 2)],
                           data, p + BigEndianUint16(data, p))
             [] marker = MarkerSOS ->
                  Bind(parseSOS(header, data, p),
                       LAMBDA r : IF r.err # "none" THEN ParseJpegHeaderFail(r.err)
                                  ELSE [err |-> "none", header |-> r.header,
                                        readIndex |-> p + BigEndianUint16(data, p)])
             [] OTHER ->
                  IF p + 2 <= Len(data)
                  THEN ParseJpegHeaderFrom(header, data, p + BigEndianUint16(data, p))
                  ELSE ParseJpegHeaderFrom(header, data, p)))

ParseJpegHeader(data) == ParseJpegHeaderFrom(NewJpegHeader, data, 0)

\* NewLeptonHeader, with the fields the modelled paths read.  PadBit is -1 for nil, and
\* hasJpegHeader tells whether JpegHeader is non-nil.
NewLeptonHeader ==
    [JpegType |-> "Unknown", ThreadCount |-> 0, OriginalFileSize |-> 0,
     hasJpegHeader |-> FALSE, JpegHeader |-> NewJpegHeader,
     RawJpegHeader |-> <<>>, RawJpegHeaderReadIndex |-> 0, ThreadHandoffs |-> <<>>,
     PadBit |-> -1, GarbageData |-> <<>>, PrefixGarbage |-> <<>>, RestartErrors |-> <<>>,
     EarlyEofEncountered |-> FALSE,
     Use16BitDCEstimate |-> TRUE, Use16BitAdvPredict |-> TRUE]

\* parseThreadHandoffs on data[pos:]: LumaYStart, SegmentSize and LastDC of each handoff
\* (the overhang fields are read by the partitioned writers only).
parseThreadHandoffs(data, pos, numThreads) ==
    IF Len(data) - pos < numThreads * 16 THEN [err |-> "BadLeptonFile", handoffs |-> <<>>, n |-> 0]
    ELSE [err |-> "none",
          handoffs |-> [i \in 1..numThreads |->
              [LumaYStart  |-> Uint16(data, pos + ((i - 1) * 16)),
               SegmentSize |-> Uint32(data, pos + ((i - 1) * 16) + 2),
               LastDC      |-> [j \in 0..3 |-> Int16(Uint16(data, pos + ((i - 1) * 16) + 8 + (2 * j)))]]],
          n |-> numThreads * 16]

SectionFail(code, h) == [err |-> code, h |-> h]

\* A section that is a 32-bit length followed by that many bytes (HDR, GRB, PGR, FRS):
\* the position after it, or -1 when it runs past the end of the data.
SizedSectionEnd(data, pos) ==
    IF pos + 4 > Len(data) THEN -1
    ELSE IF pos + 4 + Uint32(data, pos) > Len(data) THEN -1
    ELSE pos + 4 + Uint32(data, pos)

\* parseDecompressedHeader from byte pos on; the default for the garbage is applied by
\* parseDecompressedHeader below.
RECURSIVE parseDecompressedHeaderFrom(_, _, _)
parseDecompressedHeaderFrom(h, data, pos) ==
    IF pos >= Len(data) \/ pos + 3 > Len(data) THEN SectionFail("none", h)
    ELSE Bind(Slice(data, pos, pos + 3), LAMBDA marker :
         Bind(pos + 3, LAMBDA p :
           CASE marker = LeptonHeaderMarker ->
                  IF SizedSectionEnd(data, p) < 0 THEN SectionFail("BadLeptonFile", h)
                  ELSE Bind(ParseJpegHeader(Slice(data, p + 4, SizedSectionEnd(data, p))), LAMBDA r :
                           IF r.err # "none" THEN SectionFail(r.err, h)
                           ELSE parseDecompressedHeaderFrom(
                                    [h EXCEPT !.RawJpegHeader = Slice(data, p + 4, SizedSectionEnd(data, p)),
                                              !.RawJpegHeaderReadIndex = r.readIndex,
                                              !.hasJpegHeader = TRUE,
                                              !.JpegHeader = [r.header EXCEPT !.JpegType = h.JpegType]],
                                    data, SizedSectionEnd(data, p)))
             [] SubSeq(marker, 1, 2) = LeptonHeaderLumaSplitMarker ->
                  Bind(parseThreadHandoffs(data, p, marker[3]), LAMBDA t :
                      IF t.err # "none" THEN SectionFail(t.err, h)
                      ELSE parseDecompressedHeaderFrom(
                               [h EXCEPT !.ThreadHandoffs = @ \o t.handoffs], data, p + t.n))
             [] marker = LeptonHeaderPadMarker ->
                  IF p >= Len(data) THEN SectionFail("BadLeptonFile", h)
                  ELSE parseDecompressedHeaderFrom([h EXCEPT !.PadBit = At(data, p)], data, p + 1)
             [] marker = LeptonHeaderGarbageMarker ->
                  IF SizedSectionEnd(data, p) < 0 THEN SectionFail("BadLeptonFile", h)
                  ELSE parseDecompressedHeaderFrom(
                           [h EXCEPT !.GarbageData = Slice(data, p + 4, SizedSectionEnd(data, p))],
                           data, SizedSectionEnd(data, p))
             [] marker = LeptonHeaderPrefixGarbageMarker ->
                  IF SizedSectionEnd(data, p) < 0 THEN SectionFail("BadLeptonFile", h)
                  ELSE parseDecompressedHeaderFrom(
                           [h EXCEPT !.PrefixGarbage = Slice(data, p + 4, SizedSectionEnd(data, p))],
                           data, SizedSectionEnd(data, p))
             [] marker = LeptonHeaderJpgRestartsMarker ->
                  IF p + 4 > Len(data) THEN SectionFail("BadLeptonFile", h)
                  ELSE IF p + 4 + (4 * Uint32(data, p)) > Len(data) THEN SectionFail("BadLeptonFile", h)
                  ELSE parseDecompressedHeaderFrom(h, data, p + 4 + (4 * Uint32(data, p)))
             [] marker = LeptonHeaderJpgRestartErrorsMarker ->
                  IF SizedSectionEnd(data, p) < 0 THEN SectionFail("BadLeptonFile", h)
                  ELSE parseDecompressedHeaderFrom(
                           [h EXCEPT !.RestartErrors = Slice(data, p + 4, SizedSectionEnd(data, p))],
                           data, SizedSectionEnd(data, p))
             [] marker = LeptonHeaderEarlyEofMarker ->
                  IF p + 28 > Len(data) THEN SectionFail("BadLeptonFile", h)
                  ELSE parseDecompressedHeaderFrom([h EXCEPT !.EarlyEofEncountered = TRUE], data, p + 28)
             [] OTHER -> SectionFail("BadLeptonFile", h)))

\* parseDecompressedHeader with every 3-byte marker taken for a known one: what is not
\* recognised ends the parse without an error.
parseDecompressedHeader_UnknownSkipped(h, data) ==
    Bind(parseDecompressedHeaderFrom(h, data, 0), LAMBDA r :
        [err |-> IF r.err = "BadLeptonFile" THEN "none" ELSE r.err,
         h |-> IF r.h.GarbageData = <<>> THEN [r.h EXCEPT !.GarbageData = EOI] ELSE r.h])

parseDecompressedHeader(h, data) ==
    Bind(parseDecompressedHeaderFrom(h, data, 0), LAMBDA r :
        IF r.err # "none" THEN r
        ELSE SectionFail("none", IF r.h.GarbageData = <<>> THEN [r.h EXCEPT !.GarbageData = EOI] ELSE r.h))

LeptonHeaderFail(code) == [err |-> code, returned |-> FALSE, header |-> NewLeptonHeader, pos |-> 0]

\* The 'MS' block with the two mode bits read whether or not bit 0x80 is set.
Use16BitFlags_ExtendedIgnored(header, fixedHeader) ==
    IF At(fixedHeader, 8) = 77 /\ At(fixedHeader, 9) = 83
    THEN [header EXCEPT !.Use16BitDCEstimate = BitAnd(At(fixedHeader, 14), 1) # 0,
                        !.Use16BitAdvPredict = BitAnd(At(fixedHeader, 14), 2) # 0]
    ELSE header

\* The 'MS' block of ReadLeptonHeader: the two 16-bit modes after bytes 8, 9 and 14 of the
\* fixed header.  Without 'MS', or with bit 0x80 of the flags clear, the header keeps the
\* values NewLeptonHeader gave it.
Use16BitFlags(header, fixedHeader) ==
    IF At(fixedHeader, 8) = 77 /\ At(fixedHeader, 9) = 83 /\ BitAnd(At(fixedHeader, 14), 128) # 0
    THEN [header EXCEPT !.Use16BitDCEstimate = BitAnd(At(fixedHeader, 14), 1) # 0,
                        !.Use16BitAdvPredict = BitAnd(At(fixedHeader, 14), 2) # 0]
    ELSE header

\* ReadLeptonHeader on the bytes of a file: the header, and pos, the number of bytes read.
ReadLeptonHeader(file) ==
    IF Len(file) < 28 THEN LeptonHeaderFail("error")
    ELSE IF At(file, 0) # LeptonFileHeader[1] \/ At(file, 1) # LeptonFileHeader[2]
    THEN LeptonHeaderFail("BadLeptonFile")
    ELSE IF At(file, 2) # LeptonVersion THEN LeptonHeaderFail("VersionUnsupported")
    ELSE IF At(file, 3) \notin {LeptonHeaderBaselineJpegType, LeptonHeaderProgressiveJpegType}
    THEN LeptonHeaderFail("BadLeptonFile")
    ELSE IF 28 + Uint32(file, 24) > Len(file) THEN LeptonHeaderFail("error")
    ELSE Bind(ZlibRead(Slice(file, 28, 28 + Uint32(file, 24))), LAMBDA z :
             IF z.err # "none" THEN LeptonHeaderFail("error")
             ELSE Bind(parseDecompressedHeader(
                           [Use16BitFlags(NewLeptonHeader, Slice(file, 0, 28)) EXCEPT
                               !.JpegType = IF At(file, 3) = LeptonHeaderBaselineJpegType
                                            THEN "Sequential" ELSE "Progressive",
                               !.ThreadCount = At(file, 4),
                               !.OriginalFileSize = Uint32(file, 20)],
                           z.data),
                       LAMBDA r :
                           IF r.err # "none" THEN LeptonHeaderFail(r.err)
                           ELSE [err |-> "none", returned |-> TRUE, header |-> r.h,
                                 pos |-> 28 + Uint32(file, 24)]))

(***************************************************************************)
(* JpegWriter: the baseline JPEG rebuilt from a LeptonHeader and the       *)
(* decoded blocks, written through the limitedWriter of DecodeLepton.      *)
(***************************************************************************)
\* limitedWriter.Write: bytes beyond `remaining` are dropped without an error.
NewLimitedWriter(size) == [out |-> <<>>, remaining |-> size]

limitedWrite(lw, p) ==
    IF lw.remaining <= 0 THEN lw
    ELSE IF Len(p) > lw.remaining
    THEN [out |-> lw.out \o SubSeq(p, 1, lw.remaining), remaining |-> 0]
    ELSE [out |-> lw.out \o p, remaining |-> lw.remaining - Len(p)]

\* buildEncodeTable, one symbol's entry: the code and length of the last place the symbol
\* holds in the decode table, length 0 when the table does not have the symbol.
buildEncodeTable(decodeTable, symbol) ==
    LET places == {idx \in 0..(Len(decodeTable.Symbols) - 1) : At(decodeTable.Symbols, idx) = symbol}
    IN  IF places = {} THEN [code |-> 0, length |-> 0]
        ELSE LET idx  == MaxOf(places)
                 bits == CHOOSE b \in 1..16 :
                             /\ SumSeq(SubSeq(decodeTable.NumCodes, 1, b - 1)) <= idx
                             /\ idx < SumSeq(SubSeq(decodeTable.NumCodes, 1, b))
             IN  [code |-> (huffCodeAt(decodeTable.NumCodes, bits)
                               + (idx - SumSeq(SubSeq(decodeTable.NumCodes, 1, bits - 1)))) % 65536,
                  length |-> bits]

\* The category of a coefficient: the number of bits of its absolute value.
Category(v) ==
    LET absVal == IF v < 0 THEN Int16(-v) ELSE v
    IN  IF absVal <= 0 THEN 0 ELSE CHOOSE c \in 1..15 : Pow2(c - 1) <= absVal /\ absVal < Pow2(c)

\* The additional bits of a coefficient of the given category.
AdditionalBits(v, category) == IF v >= 0 THEN v ELSE (v - 1) % Pow2(category)

encodeDC(bw, diff, table) ==
    Bind(Category(diff), LAMBDA category :
    Bind(buildEncodeTable(table, category), LAMBDA e :
    Bind(Write(bw, e.code, e.length), LAMBDA w1 :
        IF category > 0 THEN Write(w1, AdditionalBits(diff, category), category) ELSE w1)))

\* The ZRL codes encodeAC writes before a coefficient whose zero run is 16 or more.
RECURSIVE writeZRL(_, _, _)
writeZRL(bw, zeroRunLength, table) ==
    IF zeroRunLength < 16 THEN bw
    ELSE Bind(buildEncodeTable(table, 240), LAMBDA e :
         Bind(Write(bw, e.code, e.length), LAMBDA w1 : writeZRL(w1, zeroRunLength - 16, table)))

\* encodeAC from coefficient i on, i following a non-zero coefficient (or the DC): the zero
\* run is counted up to the next non-zero coefficient, and EOB is written when the block
\* ends in zeros.
RECURSIVE encodeACFrom(_, _, _, _)
encodeACFrom(bw, block, table, i) ==
    LET nonZero == {k \in i..63 : block[k] # 0}
    IN  IF nonZero = {}
        THEN IF i <= 63
             THEN Bind(buildEncodeTable(table, 0), LAMBDA e : Write(bw, e.code, e.length))
             ELSE bw
        ELSE Bind(CHOOSE k \in nonZero : \A m \in nonZero : k <= m, LAMBDA pos :
             Bind(writeZRL(bw, pos - i, table), LAMBDA w1 :
             Bind(Category(block[pos]), LAMBDA category :
             Bind(buildEncodeTable(table, ((((pos - i) % 16) * 16) % 256) + category), LAMBDA e :
             Bind(Write(w1, e.code, e.length), LAMBDA w2 :
             Bind(Write(w2, AdditionalBits(block[pos], category), category), LAMBDA w3 :
                 encodeACFrom(w3, block, table, pos + 1)))))))

encodeAC(bw, block, table) == encodeACFrom(bw, block, table, 1)

\* writeBlock for the component of the scan: st carries the BitWriter and lastDC.  A table
\* index beyond 3 or a table that was never defined is a run-time panic.
writeBlock(st, jpegHeader, block, componentIdx) ==
    LET ci == jpegHeader.CmpInfo[componentIdx]
    IN  IF ci.HuffDC > 3 \/ ci.HuffAC > 3 THEN [st EXCEPT !.err = "panic"]
        ELSE IF ~jpegHeader.HuffDC[ci.HuffDC].present \/ ~jpegHeader.HuffAC[ci.HuffAC].present
        THEN [st EXCEPT !.err = "panic"]
        ELSE Bind(ZigzagFromTransposed(block), LAMBDA zigzagBlock :
             Bind(encodeDC(st.bw, Int16(zigzagBlock[0] - st.lastDC), jpegHeader.HuffDC[ci.HuffDC]),
                  LAMBDA w1 :
                 [st EXCEPT !.bw = encodeAC(w1, zigzagBlock, jpegHeader.HuffAC[ci.HuffAC]),
                            !.lastDC = zigzagBlock[0]]))

AllZeros(s) == \A i \in 1..Len(s) : s[i] = 0

\* The closure writeLimited of the scan writers.
writeLimited(st, data, maxScanBytes) ==
    IF Len(data) = 0 \/ st.reachedLimit THEN st
    ELSE IF maxScanBytes >= 0 /\ maxScanBytes - st.bytesWritten <= 0
    THEN [st EXCEPT !.reachedLimit = TRUE]
    ELSE IF maxScanBytes >= 0 /\ Len(data) > maxScanBytes - st.bytesWritten
    THEN [st EXCEPT !.reachedLimit = TRUE,
                    !.out = limitedWrite(@, SubSeq(data, 1, maxScanBytes - st.bytesWritten)),
                    !.bytesWritten = maxScanBytes]
    ELSE [st EXCEPT !.out = limitedWrite(@, data), !.bytesWritten = @ + Len(data)]

\* The pad byte of the scan writers: the recorded pad bit, 0xFF when none was recorded.
WriterPadBit(h) == IF h.PadBit # -1 THEN h.PadBit ELSE 255

\* What writeScanDataNonInterleaved does once blockCount has reached the restart interval.
writeRestart(st, h, maxScanBytes) ==
    Bind(writeLimited([st EXCEPT !.bw = DetachBufferWriter],
                      DetachBufferResult(Pad(st.bw, WriterPadBit(h))), maxScanBytes), LAMBDA s1 :
    Bind(IF s1.reachedLimit THEN FALSE
         ELSE IF h.EarlyEofEncountered /\ AllZeros(h.GarbageData) /\ maxScanBytes >= 0
         THEN ~(s1.bytesWritten + 2 >
                   maxScanBytes - (IF maxScanBytes > 10000 THEN 256 ELSE (maxScanBytes * 30) \div 100))
         ELSE TRUE, LAMBDA writeRst :
    Bind(IF writeRst
         THEN [writeLimited(s1, <<255, MarkerRST0 + (s1.restartMarkerIdx % 8)>>, maxScanBytes)
                  EXCEPT !.restartMarkerIdx = @ + 1]
         ELSE s1, LAMBDA s2 :
        [s2 EXCEPT !.lastDC = 0, !.blockCount = 0])))

\* The block loop of writeScanDataNonInterleaved from dpos on.
RECURSIVE writeScanDataNonInterleavedFrom(_, _, _, _, _)
writeScanDataNonInterleavedFrom(st, h, images, maxScanBytes, dpos) ==
    LET cmp == h.JpegHeader.ScanComponentOrder[1]
        ci  == h.JpegHeader.CmpInfo[cmp]
    IN  IF st.err # "none" \/ dpos >= ci.Bch * ci.Bcv THEN st
        ELSE IF dpos % ci.Bch >= ci.Nch \/ dpos \div ci.Bch >= ci.Ncv
        THEN writeScanDataNonInterleavedFrom(st, h, images, maxScanBytes, dpos + 1)
        ELSE Bind(writeBlock(st, h.JpegHeader,
                             IF dpos < Len(images) THEN images[dpos + 1] ELSE ZeroBlock, cmp),
                  LAMBDA s1 :
                 IF s1.err # "none" THEN s1
                 ELSE IF h.JpegHeader.RestartInterval > 0
                         /\ s1.blockCount + 1 >= h.JpegHeader.RestartInterval
                 THEN Bind(writeRestart(s1, h, maxScanBytes), LAMBDA s2 :
                          writeScanDataNonInterleavedFrom(s2, h, images, maxScanBytes, dpos + 1))
                 ELSE writeScanDataNonInterleavedFrom([s1 EXCEPT !.blockCount = @ + 1],
                                                      h, images, maxScanBytes, dpos + 1))

\* writeScanDataNonInterleaved: the blocks, then the final pad and flush.  `out` is the
\* limitedWriter as it stands when the scan begins.
writeScanDataNonInterleaved(h, images, maxScanBytes, out) ==
    Bind(writeScanDataNonInterleavedFrom(
             [err |-> "none", bw |-> NewBitWriter, lastDC |-> 0, blockCount |-> 0,
              restartMarkerIdx |-> 0, bytesWritten |-> 0, reachedLimit |-> FALSE, out |-> out],
             h, images, maxScanBytes, 0), LAMBDA st :
        IF st.err # "none" THEN [err |-> st.err, out |-> st.out]
        ELSE [err |-> "none",
              out |-> writeLimited(st, DetachBufferResult(Pad(st.bw, WriterPadBit(h))),
                                   maxScanBytes).out])

\* The trailing RST markers writeBaselineJpeg writes for RestartErrors, from marker i on.
RECURSIVE writeRstErr(_, _, _, _)
writeRstErr(out, cumulativeResetMarkers, count, i) ==
    IF i >= count THEN out
    ELSE writeRstErr(limitedWrite(out, <<255, MarkerRST0 + ((cumulativeResetMarkers + i) % 8)>>),
                     cumulativeResetMarkers, count, i + 1)

\* writeBaselineJpeg.  The scan is written by writeScanDataNonInterleaved; a scan of
\* several components or a file of several thread handoffs takes writers outside this
\* model ("NotModelled").
writeBaselineJpeg(h, images, out) ==
    IF h.RawJpegHeaderReadIndex > Len(h.RawJpegHeader) THEN [err |-> "panic", out |-> out]
    ELSE IF Len(h.JpegHeader.ScanComponentOrder) # 1
            \/ (~h.EarlyEofEncountered /\ Len(h.ThreadHandoffs) > 1)
    THEN [err |-> "NotModelled", out |-> out]
    ELSE LET garbageLen == IF AllZeros(h.GarbageData) THEN 0 ELSE Len(h.GarbageData)
             eofLimit == h.OriginalFileSize - Len(h.PrefixGarbage) - 2 - h.RawJpegHeaderReadIndex
                            - (Len(h.RawJpegHeader) - h.RawJpegHeaderReadIndex) - garbageLen
             limit1 == IF h.EarlyEofEncountered THEN eofLimit ELSE -1
             maxScanBytes ==
                 IF limit1 < 0 /\ Len(h.ThreadHandoffs) = 1 /\ h.ThreadHandoffs[1].SegmentSize > 0
                 THEN h.ThreadHandoffs[1].SegmentSize ELSE limit1
         IN  Bind(writeScanDataNonInterleaved(h, images, maxScanBytes,
                      limitedWrite(out, Slice(h.RawJpegHeader, 0, h.RawJpegHeaderReadIndex))),
                  LAMBDA scan :
             IF scan.err # "none" THEN scan
             ELSE Bind(IF Len(h.RestartErrors) > 0
                       THEN writeRstErr(scan.out,
                                IF h.JpegHeader.RestartInterval # 0
                                THEN (((h.JpegHeader.Mcuh * h.JpegHeader.Mcuv) - 1)
                                          \div h.JpegHeader.RestartInterval) % 256
                                ELSE 0,
                                h.RestartErrors[1], 0)
                       ELSE scan.out, LAMBDA o1 :
                  Bind(limitedWrite(o1, Slice(h.RawJpegHeader, h.RawJpegHeaderReadIndex,
                                              Len(h.RawJpegHeader))), LAMBDA o2 :
                      [err |-> "none",
                       out |-> IF Len(h.GarbageData) > 0
                                  /\ ~(h.EarlyEofEncountered /\ AllZeros(h.GarbageData))
                               THEN limitedWrite(o2, h.GarbageData) ELSE o2])))

\* WriteJpeg: the prefix garbage, SOI, then the baseline writer.
WriteJpeg(h, images, out) ==
    IF h.JpegType = "Progressive"
    THEN [err |-> "NotModelled", out |-> limitedWrite(limitedWrite(out, h.PrefixGarbage), SOI)]
    ELSE writeBaselineJpeg(h, images, limitedWrite(limitedWrite(out, h.PrefixGarbage), SOI))

\* The demultiplexer without the length of fixed-length blocks: every block is read as
\* a variable-length one.
RECURSIVE getPartitionData_VariableOnly(_, _, _, _)
getPartitionData_VariableOnly(data, pos, numPartitions, partitionID) ==
    IF pos >= Len(data) \/ pos + 3 > Len(data) THEN <<>>
    ELSE LET start    == pos + 3
             asked    == Uint16(data, pos + 1) + 1
             blockLen == IF start + asked > Len(data) THEN Len(data) - start ELSE asked
         IN  (IF At(data, pos) % 16 = partitionID /\ partitionID < numPartitions
              THEN Slice(data, start, start + blockLen) ELSE <<>>)
             \o getPartitionData_VariableOnly(data, start + blockLen, numPartitions, partitionID)

\* newDemultiplexer + getPartitionData: the bytes of one partition in data[pos:].
RECURSIVE getPartitionData(_, _, _, _)
getPartitionData(data, pos, numPartitions, partitionID) ==
    IF pos >= Len(data) THEN <<>>
    ELSE IF At(data, pos) < 16 /\ pos + 3 > Len(data) THEN <<>>
    ELSE LET header   == At(data, pos)
             start    == IF header < 16 THEN pos + 3 ELSE pos + 1
             asked    == IF header < 16 THEN Uint16(data, pos + 1) + 1
                         ELSE 1024 * Pow2(2 * ((header \div 16) % 4))
             blockLen == IF start + asked > Len(data) THEN Len(data) - start ELSE asked
         IN  (IF header % 16 = partitionID /\ partitionID < numPartitions
              THEN Slice(data, start, start + blockLen) ELSE <<>>)
             \o getPartitionData(data, start + blockLen, numPartitions, partitionID)

DecodeFail(code) == [err |-> code, data |-> <<>>]

\* DecodeLepton on the bytes of a file: the error, or the bytes that reached the output.
\* A file without an HDR section leaves JpegHeader nil, and DecodeLepton dereferences it.
DecodeLepton(file) ==
    Bind(ReadLeptonHeader(file), LAMBDA lh :
        IF lh.err # "none" THEN DecodeFail(lh.err)
        ELSE IF ~lh.header.hasJpegHeader THEN DecodeFail("panic")
        ELSE IF lh.pos + 3 > Len(file) THEN DecodeFail("error")
        ELSE IF Slice(file, lh.pos, lh.pos + 3) # LeptonHeaderCompletionMarker
        THEN DecodeFail("BadLeptonFile")
        ELSE IF Len(file) - (lh.pos + 3) < 4 THEN DecodeFail("BadLeptonFile")
        ELSE Bind(IF Len(lh.header.ThreadHandoffs) = 0 THEN <<>>
                  ELSE DecodeRowRange(getPartitionData(Slice(file, lh.pos + 3, Len(file) - 4), 0,
                                                       Len(lh.header.ThreadHandoffs), 0)),
                  LAMBDA images :
             Bind(WriteJpeg(lh.header, images, NewLimitedWriter(lh.header.OriginalFileSize)),
                  LAMBDA w : IF w.err # "none" THEN DecodeFail(w.err)
                             ELSE [err |-> "none", data |-> w.out.out])))

\* EncodeVerify without the comparison of the decoded bytes with the input.
EncodeVerify_NoCompare(jpegData) ==
    Bind(Encode(jpegData), LAMBDA e :
        IF e.err # "none" THEN [err |-> e.err, data |-> <<>>, returned |-> FALSE]
        ELSE Bind(DecodeLepton(e.data), LAMBDA d :
                 IF d.err # "none" THEN [err |-> d.err, data |-> <<>>, returned |-> FALSE]
                 ELSE [err |-> "none", data |-> e.data, returned |-> TRUE]))

\* EncodeVerify: the Lepton bytes when the decoded bytes equal the input.
EncodeVerify(jpegData) ==
    Bind(Encode(jpegData), LAMBDA e :
        IF e.err # "none" THEN [err |-> e.err, data |-> <<>>, returned |-> FALSE]
        ELSE Bind(DecodeLepton(e.data), LAMBDA d :
                 IF d.err # "none" THEN [err |-> d.err, data |-> <<>>, returned |-> FALSE]
                 ELSE IF d.data # jpegData
                 THEN [err |-> "VerificationContentMismatch", data |-> <<>>, returned |-> FALSE]
                 ELSE [err |-> "none", data |-> e.data, returned |-> TRUE]))

(***************************************************************************)
(* JPEG files given to the codec.  A file is described by a record and     *)
(* built byte by byte here, without any operator of the codec: one frame   *)
(* (SOF0) of `ncomp` components, one DC and one AC Huffman table, an       *)
(* optional DRI, and one scan of the first component holding `blocks`      *)
(* blocks in a row.  DC codes: 0 -> category 0, 10 -> category 1.  AC      *)
(* codes: 0 -> EOB, 10 -> run 0 size 1, 11 -> run 0 size 2.                *)
(***************************************************************************)
MaxBlocks == 3

Ones(n) == [k \in 1..n |-> 1]

\* The bits of a block: "zero" is DC 0; "dc" is DC +1; "long" adds three coefficients +1;
\* "stuffed" adds four coefficients +3, which puts a byte 0xFF into the scan.
BlockBits(variant) ==
    CASE variant = "zero"    -> <<0, 0>>
      [] variant = "dc"      -> <<1, 0, 1, 0>>
      [] variant = "long"    -> <<1, 0, 1, 1, 0, 1, 1, 0, 1, 1, 0, 1, 0>>
      [] variant = "stuffed" -> <<1, 0, 1>> \o Ones(16) \o <<0>>

\* Bits cut into bytes, most significant bit first, 0x00 stuffed after a byte 0xFF.
RECURSIVE StuffedBytes(_)
StuffedBytes(bits) ==
    IF Len(bits) < 8 THEN <<>>
    ELSE LET b == (bits[1] * 128) + (bits[2] * 64) + (bits[3] * 32) + (bits[4] * 16)
                      + (bits[5] * 8) + (bits[6] * 4) + (bits[7] * 2) + bits[8]
         IN  (IF b = 255 THEN <<255, 0>> ELSE <<b>>) \o StuffedBytes(SubSeq(bits, 9, Len(bits)))

\* One restart interval: blocks first..last, filled up to a whole byte with `pad` bits.
RECURSIVE IntervalBits(_, _, _)
IntervalBits(d, first, last) ==
    IF first > last THEN <<>>
    ELSE BlockBits(IF first = 1 THEN d.first ELSE "dc") \o IntervalBits(d, first + 1, last)

IntervalBytes(d, first, last, pad) ==
    LET bits == IntervalBits(d, first, last)
    IN  StuffedBytes(bits \o [k \in 1..((8 - (Len(bits) % 8)) % 8) |-> pad])

\* The scan from block `first` on; k counts the restart markers written so far.
RECURSIVE ScanBytes(_, _, _)
ScanBytes(d, first, k) ==
    IF d.dri = 0 \/ first + d.dri > d.blocks
    THEN IntervalBytes(d, first, d.blocks, d.padEnd)
    ELSE IntervalBytes(d, first, first + d.dri - 1, d.padRst)
             \o <<255, MarkerRST0 + (k % 8)>> \o ScanBytes(d, first + d.dri, k + 1)

SegDQT == <<255, MarkerDQT, 0, 67, 0>> \o Ones(64)
SegSOF(d) ==
    <<255, MarkerSOF0, 0, 8 + (3 * d.ncomp), d.precision, 0, d.height, 0, 8 * d.blocks, d.ncomp>>
        \o [k \in 1..(3 * d.ncomp) |->
               CASE k % 3 = 1 -> ((k - 1) \div 3) + 1
                 [] k % 3 = 2 -> IF k = (3 * d.ncomp) - 1 THEN d.sampling ELSE 17
                 [] OTHER     -> IF k = 3 THEN d.tq ELSE 0]
SegDHT == <<255, MarkerDHT, 0, 21, 0, 1, 1>> \o [k \in 1..14 |-> 0] \o <<0, 1>>
              \o <<255, MarkerDHT, 0, 22, 16, 1, 2>> \o [k \in 1..14 |-> 0] \o <<0, 1, 2>>
SegDRI(d) == IF d.dri = 0 THEN <<>> ELSE <<255, MarkerDRI, 0, 4, 0, d.dri>>
SegSOS == <<255, MarkerSOS, 0, 8, 1, 1, 0, 0, 63, 0>>

\* The whole file: prefix, SOI, header, scan and tail, with the last `cut` bytes cut off.
JpegBytes(d) ==
    LET whole == d.prefix \o SOI \o SegDQT \o SegSOF(d) \o SegDHT \o SegDRI(d)
                     \o (IF d.sos THEN SegSOS \o ScanBytes(d, 1, 0) ELSE <<>>) \o d.tail
    IN  SubSeq(whole, 1, Len(whole) - d.cut)

PlainFile ==
    [prefix |-> <<>>, precision |-> 8, ncomp |-> 1, sampling |-> 17, tq |-> 0, height |-> 8,
     sos |-> TRUE, blocks |-> 1, dri |-> 0, padRst |-> 1, padEnd |-> 1, first |-> "zero",
     tail |-> EOI, cut |-> 0]

\* Scans: 1..MaxBlocks blocks, with and without restart markers, both pad bits at the
\* restart markers and at the end, complete, followed by garbage, or cut short.
ScanFiles ==
    {[PlainFile EXCEPT !.blocks = b, !.dri = ri, !.padRst = p[1], !.padEnd = p[2],
                       !.first = f, !.tail = t[1], !.cut = t[2]] :
        b \in 1..MaxBlocks, ri \in 0..2, p \in {<<1, 1>>, <<0, 0>>, <<1, 0>>},
        f \in {"zero", "dc", "long", "stuffed"},
        t \in {<<EOI, 0>>, <<EOI \o <<7>>, 0>>, <<EOI, 1>>, <<(<<>>), 0>>, <<(<<>>), 1>>, <<(<<>>), 2>>}}

\* Frames: 8 and 12 bits, 1 to 5 components, sampling factors up to 3 on the last
\* component, a quantization table index of 0 or 4 on the first, zero height, no scan.
FrameFiles ==
    {[PlainFile EXCEPT !.precision = pr, !.ncomp = n, !.sampling = s, !.tq = q,
                       !.height = h, !.sos = ss] :
        pr \in {8, 12}, n \in {1, 3, 4, 5}, s \in {17, 34, 49, 19}, q \in {0, 4},
        h \in {0, 8}, ss \in BOOLEAN}

\* Files with bytes before SOI.
PrefixFiles ==
    {[PlainFile EXCEPT !.prefix = pre, !.first = f] :
        pre \in {<<0>>, <<171, 205>>}, f \in {"zero", "long"}}

JpegFiles == ScanFiles \cup FrameFiles \cup PrefixFiles

(***************************************************************************)
(* The codec at work on one JPEG file: ReadJpegFile, Encode, DecodeLepton  *)
(* and EncodeVerify.  jpFile is the Lepton file given to DecodeLepton.     *)
(***************************************************************************)
NoRead == [err |-> "none", returned |-> FALSE, EarlyEOF |-> FALSE, MaxDPos |-> 0, PadBit |-> -1]
NoResult == [err |-> "none", data |-> <<>>]

JpegIdle ==
    /\ jpDesc = PlainFile /\ jpIn = <<>> /\ jpPc = "idle"
    /\ jpRead = NoRead
    /\ jpEnc = NoResult /\ jpFile = <<>> /\ jpDec = NoResult
    /\ jpVer = [err |-> "none", data |-> <<>>, returned |-> FALSE]

JpegInit ==
    /\ \E d \in JpegFiles : jpDesc = d /\ jpIn = JpegBytes(d)
    /\ jpPc = "input"
    /\ jpRead = NoRead
    /\ jpEnc = NoResult /\ jpFile = <<>> /\ jpDec = NoResult
    /\ jpVer = [err |-> "none", data |-> <<>>, returned |-> FALSE]

JpReadJpegFile ==
    /\ jpPc = "input"
    /\ \E r \in {ReadJpegFile(jpIn)} :
           jpRead' = [err |-> r.err, returned |-> r.returned, EarlyEOF |-> r.EarlyEOF,
                      MaxDPos |-> r.MaxDPos, PadBit |-> r.PadBit]
    /\ jpPc' = "read"
    /\ UNCHANGED <<jpDesc, jpIn, jpEnc, jpFile, jpDec, jpVer>>

JpEncode ==
    /\ jpPc = "input"
    /\ jpEnc' = Encode(jpIn)
    /\ jpPc' = "encoded"
    /\ UNCHANGED <<jpDesc, jpIn, jpRead, jpFile, jpDec, jpVer>>

\* DecodeLepton on the file Encode wrote.
JpDecodeLepton ==
    /\ jpPc = "encoded" /\ jpEnc.err = "none"
    /\ jpFile' = jpEnc.data
    /\ jpDec' = DecodeLepton(jpEnc.data)
    /\ jpPc' = "decoded"
    /\ UNCHANGED <<jpDesc, jpIn, jpRead, jpEnc, jpVer>>

\* The sizes a Lepton file may carry in place of the size Encode wrote.
SizeDeltas == {-1, 1}

\* The file with another OriginalFileSize in bytes 20..23 of its fixed header.
WithOriginalFileSize(file, size) == Slice(file, 0, 20) \o PutUint32(size) \o Slice(file, 24, Len(file))

\* DecodeLepton on a Lepton file that differs from the one Encode wrote in its
\* OriginalFileSize field.
JpDecodeResized ==
    /\ jpPc = "encoded" /\ jpEnc.err = "none"
    /\ \E delta \in SizeDeltas :
          \E f \in {WithOriginalFileSize(jpEnc.data, Len(jpIn) + delta)} :
              jpFile' = f /\ jpDec' = DecodeLepton(f)
    /\ jpPc' = "decoded"
    /\ UNCHANGED <<jpDesc, jpIn, jpRead, jpEnc, jpVer>>

JpEncodeVerify ==
    /\ \/ jpPc = "decoded" /\ jpFile = jpEnc.data
       \/ jpPc = "encoded" /\ jpEnc.err # "none"
    /\ jpVer' = EncodeVerify(jpIn)
    /\ jpPc' = "verified"
    /\ UNCHANGED <<jpDesc, jpIn, jpRead, jpEnc, jpFile, jpDec>>

(***************************************************************************)
(* Lepton files given to ReadLeptonHeader.  A file is described by its     *)
(* magic bytes, version byte, type byte and the list of the sections in    *)
(* its compressed header, and built here byte by byte (the zlib stream     *)
(* apart).  `keep` cuts the file after that many bytes (-1: no cut).       *)
(***************************************************************************)
MaxSections == 2

\* A raw JPEG header of one frame and one scan, as the HDR section holds it.
SectionRawHeader == SegSOF(PlainFile) \o SegSOS

\* The bytes of a section, by name.  The first eight are the sections of the format; XYZ,
\* HDX, hdr and CMP begin with three bytes that are no section marker; HDRshort and GRBlong
\* are known markers whose content ends too early; stray is two bytes, too few for a
\* marker when they come last.
SectionBytes(name) ==
    CASE name = "HDR" -> LeptonHeaderMarker \o PutUint32(Len(SectionRawHeader)) \o SectionRawHeader
      [] name = "P0D" -> LeptonHeaderPadMarker \o <<0>>
      [] name = "HH"  -> LeptonHeaderLumaSplitMarker \o <<1>> \o [k \in 1..16 |-> 0]
      [] name = "GRB" -> LeptonHeaderGarbageMarker \o PutUint32(2) \o EOI
      [] name = "PGR" -> LeptonHeaderPrefixGarbageMarker \o PutUint32(1) \o <<171>>
      [] name = "CRS" -> LeptonHeaderJpgRestartsMarker \o PutUint32(1) \o PutUint32(5)
      [] name = "FRS" -> LeptonHeaderJpgRestartErrorsMarker \o PutUint32(1) \o <<1>>
      [] name = "EEE" -> LeptonHeaderEarlyEofMarker \o [k \in 1..28 |-> 0]
      [] name = "XYZ" -> <<88, 89, 90, 0, 0, 0, 0>>
      [] name = "HDX" -> <<72, 68, 88, 0, 0, 0, 0>>
      [] name = "hdr" -> <<104, 100, 114>>
      [] name = "CMP" -> LeptonHeaderCompletionMarker
      [] name = "HDRshort" -> LeptonHeaderMarker \o <<4, 0>>
      [] name = "GRBlong"  -> LeptonHeaderGarbageMarker \o PutUint32(9) \o EOI
      [] name = "stray"    -> <<88, 89>>

KnownSections == {"HDR", "P0D", "HH", "GRB", "PGR", "CRS", "FRS", "EEE"}
UnknownMarkers == {"XYZ", "HDX", "hdr", "CMP"}
SectionNames == KnownSections \cup UnknownMarkers \cup {"HDRshort", "GRBlong", "stray"}

RECURSIVE SectionListBytes(_)
SectionListBytes(names) ==
    IF names = <<>> THEN <<>> ELSE SectionBytes(Head(names)) \o SectionListBytes(Tail(names))

LeptonBytes(d) ==
    LET sections   == SectionListBytes(d.sections)
        compressed == ZlibWrite(sections)
        whole == d.magic \o <<d.version, d.type, 1, 0, 0, 0>> \o d.ms \o PutUint32(Len(sections))
                     \o <<d.flags, 1, 0, 0, 0, 0>> \o PutUint32(144) \o PutUint32(Len(compressed))
                     \o compressed \o LeptonHeaderCompletionMarker
    IN  IF d.keep < 0 THEN whole ELSE SubSeq(whole, 1, d.keep)

PlainLepton ==
    [magic |-> LeptonFileHeader, version |-> LeptonVersion, type |-> LeptonHeaderBaselineJpegType,
     ms |-> <<77, 83>>, flags |-> 131, sections |-> <<"HDR">>, keep |-> -1]

\* Every list of up to MaxSections sections behind a good fixed header; every magic,
\* version and type before a good and a bad section list; files cut short; and bytes
\* 8..9 and 14 of the fixed header with and without 'MS' and each of the flag bits.
LeptonFiles ==
    {[PlainLepton EXCEPT !.sections = s] :
        s \in UNION {[1..n -> SectionNames] : n \in 0..MaxSections}}
    \cup {[PlainLepton EXCEPT !.magic = m, !.version = v, !.type = t, !.sections = s] :
        m \in {LeptonFileHeader, <<207, 133>>, <<0, 132>>}, v \in {0, 1, 2},
        t \in {LeptonHeaderBaselineJpegType, LeptonHeaderProgressiveJpegType, 89},
        s \in {<<"HDR">>, <<"XYZ">>}}
    \cup {[PlainLepton EXCEPT !.magic = m, !.sections = s, !.keep = k] :
        m \in {LeptonFileHeader, <<0, 132>>}, s \in {<<"HDR">>, <<"XYZ">>}, k \in {10, 27, 30}}
    \cup {[PlainLepton EXCEPT !.ms = ms, !.flags = f, !.sections = s] :
        ms \in {<<77, 83>>, <<77, 0>>, <<0, 83>>, <<18, 52>>},
        f \in {0, 1, 2, 3, 124, 128, 129, 130, 131, 255}, s \in {<<"HDR">>, <<"HDR", "P0D">>}}

LeptonHeaderIdle ==
    /\ lhDesc = PlainLepton /\ lhIn = <<>> /\ lhPc = "idle"
    /\ lhRes = [err |-> "none", returned |-> FALSE,
                Use16BitDCEstimate |-> TRUE, Use16BitAdvPredict |-> TRUE]

LeptonHeaderInit ==
    /\ \E d \in LeptonFiles : lhDesc = d /\ lhIn = LeptonBytes(d)
    /\ lhPc = "input"
    /\ lhRes = [err |-> "none", returned |-> FALSE,
                Use16BitDCEstimate |-> TRUE, Use16BitAdvPredict |-> TRUE]

LhReadLeptonHeader ==
    /\ lhPc = "input"
    /\ \E r \in {ReadLeptonHeader(lhIn)} :
           lhRes' = [err |-> r.err, returned |-> r.returned,
                     Use16BitDCEstimate |-> r.header.Use16BitDCEstimate,
                     Use16BitAdvPredict |-> r.header.Use16BitAdvPredict]
    /\ lhPc' = "done"
    /\ UNCHANGED <<lhDesc, lhIn>>

(***************************************************************************)
(* The multiplexed stream: blocks of several partitions emitted in any     *)
(* order, or the blocks multiplexSingleThread makes of one partition's     *)
(* data, taken apart by newDemultiplexer.                                  *)
(***************************************************************************)
MaxMuxBlocks == 3

\* The payload of the k-th block of a stream: bytes that tell the block, the partition
\* and the place in the block.
MuxPayload(k, pid, len) == [i \in 1..len |-> ((k * 37) + (pid * 5) + (i * 11)) % 256]

\* The bytes of a block as newDemultiplexer reads them: a header byte below 16 is followed
\* by length - 1 on two bytes, a header byte 16 + id, 32 + id, ... by 1024 << (2 * flags)
\* bytes.
MuxBlockBytes(b) ==
    IF b.flags < 0 THEN <<b.pid>> \o PutUint16(Len(b.payload) - 1) \o b.payload
    ELSE <<((b.flags + 4) * 16) + b.pid>> \o b.payload

\* The blocks a multiplexer may emit next: variable-length blocks of 1 and 257 bytes and,
\* among the first blocks of a stream, fixed-length blocks of 1024 and 4096 bytes (header
\* bytes 4x and 5x).
MuxBlocks(k) ==
    {[pid |-> pid, flags |-> -1, payload |-> MuxPayload(k, pid, len)] :
        pid \in {0, 1, 15}, len \in {1, 257}}
    \cup (IF k <= 1 THEN {[pid |-> 0, flags |-> 0, payload |-> MuxPayload(k, 0, 1024)]} ELSE {})
    \cup (IF k = 0 THEN {[pid |-> 1, flags |-> 1, payload |-> MuxPayload(k, 1, 4096)]} ELSE {})

\* The data multiplexSingleThread is given: short data and data around the 65536 bytes
\* of its largest block.
SingleThreadLengths == {0, 1, 2, 300, 65535, 65536, 65537}

\* The payloads of partition p in the order of the blocks.
RECURSIVE PartitionPayloads(_, _)
PartitionPayloads(blocks, p) ==
    IF blocks = <<>> THEN <<>>
    ELSE (IF Head(blocks).pid = p THEN Head(blocks).payload ELSE <<>>)
             \o PartitionPayloads(Tail(blocks), p)

DemuxIdle ==
    /\ dmN = 1 /\ dmBlocks = <<>> /\ dmStream = <<>> /\ dmPc = "idle"
    /\ dmOut = [p \in 0..15 |-> <<>>]

DemuxInit ==
    /\ dmN \in {2, 16} /\ dmBlocks = <<>> /\ dmStream = <<>> /\ dmPc = "mux"
    /\ dmOut = [p \in 0..15 |-> <<>>]

\* A multiplexer emits one more block, of any partition.
DmEmitBlock ==
    /\ dmPc = "mux" /\ Len(dmBlocks) < MaxMuxBlocks
    /\ \E b \in MuxBlocks(Len(dmBlocks)) :
          /\ dmBlocks' = Append(dmBlocks, b)
          /\ dmStream' = dmStream \o MuxBlockBytes(b)
    /\ UNCHANGED <<dmN, dmOut, dmPc>>

\* multiplexSingleThread on the data of one partition.
DmMultiplexSingleThread ==
    /\ dmPc = "mux" /\ dmBlocks = <<>>
    /\ \E len \in SingleThreadLengths : \E data \in {MuxPayload(7, 0, len)} :
          /\ dmBlocks' = <<[pid |-> 0, flags |-> -1, payload |-> data]>>
          /\ dmStream' = multiplexSingleThread(data)
    /\ dmPc' = "single"
    /\ UNCHANGED <<dmN, dmOut>>

\* newDemultiplexer on the stream, then getPartitionData for every partition id.
DmDemultiplex ==
    /\ dmPc \in {"mux", "single"}
    /\ dmOut' = [p \in 0..15 |-> getPartitionData(dmStream, 0, dmN, p)]
    /\ dmPc' = IF dmPc = "single" THEN "demuxed single" ELSE "demuxed"
    /\ UNCHANGED <<dmN, dmBlocks, dmStream>>



(***************************************************************************)
(* The order of the blocks of a baseline scan: JpegPositionState as        *)
(* readBaselineScan drives it, against the loops of writeScanData and      *)
(* writeScanDataNonInterleaved, without early EOF and without a byte       *)
(* limit.  A frame has 1 or 3 components with sampling factors 1 and 2, a  *)
(* scan names some of them, and both sides parse the same header bytes     *)
(* with their own parsers.                                                 *)
(***************************************************************************)
MaxSideBlocks == 2

\* Image sides in pixels: one pixel, whole blocks, and one pixel more than whole blocks.
FrameSides == {1} \cup {8 * k : k \in 1..MaxSideBlocks} \cup {(8 * k) + 1 : k \in 1..MaxSideBlocks}

FrameSOF(f) ==
    <<255, MarkerSOF0, 0, 8 + (3 * Len(f.sampling)), 8, 0, f.height, 0, f.width, Len(f.sampling)>>
        \o [k \in 1..(3 * Len(f.sampling)) |->
               CASE k % 3 = 1 -> ((k - 1) \div 3) + 1
                 [] k % 3 = 2 -> f.sampling[((k - 1) \div 3) + 1]
                 [] OTHER     -> 0]

FrameSOS(f) ==
    <<255, MarkerSOS, 0, 6 + (2 * Len(f.scan)), Len(f.scan)>>
        \o [k \in 1..(2 * Len(f.scan)) |-> IF k % 2 = 1 THEN f.scan[(k + 1) \div 2] ELSE 0]
        \o <<0, 63, 0>>

FrameHeaderBytes(f) == SOI \o SegDQT \o FrameSOF(f) \o SegDHT \o SegDRI(f) \o FrameSOS(f)

\* Sampling bytes 0x11, 0x12, 0x21, 0x22 on the first component; scans of one component,
\* of all components, and of two components in an order of their own.
Frames ==
    {[width |-> w, height |-> h, sampling |-> s, scan |-> <<1>>, dri |-> ri] :
        w \in FrameSides, h \in FrameSides, s \in {<<17>>, <<18>>, <<33>>, <<34>>}, ri \in 0..3}
    \cup
    {[width |-> w, height |-> h, sampling |-> <<s, c, 17>>, scan |-> sc, dri |-> ri] :
        w \in FrameSides, h \in FrameSides, s \in {17, 18, 33, 34}, c \in {17, 34},
        sc \in {<<1, 2, 3>>, <<1>>, <<2>>, <<2, 1>>}, ri \in 0..3}

\* The blocks writeScanData writes for one MCU, v before h, from component i of the scan on.
RECURSIVE writeMcuBlocks_ColumnFirst(_, _, _, _)
writeMcuBlocks_ColumnFirst(jh, mcuX, mcuY, i) ==
    IF i > Len(jh.ScanComponentOrder) THEN <<>>
    ELSE LET cmp == jh.ScanComponentOrder[i]
             ci  == jh.CmpInfo[cmp]
         IN  [k \in 1..(ci.Sfv * ci.Sfh) |->
                 <<cmp, ((((mcuY * ci.Sfv) + ((k - 1) % ci.Sfv)) * ci.Bch)
                            + (mcuX * ci.Sfh) + ((k - 1) \div ci.Sfv))>>]
                 \o writeMcuBlocks_ColumnFirst(jh, mcuX, mcuY, i + 1)

RECURSIVE writeMcuBlocks(_, _, _, _)
writeMcuBlocks(jh, mcuX, mcuY, i) ==
    IF i > Len(jh.ScanComponentOrder) THEN <<>>
    ELSE LET cmp == jh.ScanComponentOrder[i]
             ci  == jh.CmpInfo[cmp]
         IN  [k \in 1..(ci.Sfv * ci.Sfh) |->
                 <<cmp, ((((mcuY * ci.Sfv) + ((k - 1) \div ci.Sfh)) * ci.Bch)
                            + (mcuX * ci.Sfh) + ((k - 1) % ci.Sfh))>>]
                 \o writeMcuBlocks(jh, mcuX, mcuY, i + 1)

\* The MCU loop of writeScanData from MCU `mcu` on.  w holds the blocks written, the
\* numbers of blocks after which a restart marker was written, and mcuCount.
RECURSIVE writeScanDataOrderFrom(_, _, _)
writeScanDataOrderFrom(jh, w, mcu) ==
    IF mcu >= jh.Mcuv * jh.Mcuh THEN w
    ELSE LET mcuY   == mcu \div jh.Mcuh
             mcuX   == mcu % jh.Mcuh
             blocks == w.blocks \o writeMcuBlocks(jh, mcuX, mcuY, 1)
         IN  IF jh.RestartInterval > 0 /\ w.count + 1 >= jh.RestartInterval
             THEN writeScanDataOrderFrom(jh,
                      [blocks |-> blocks,
                       rst |-> IF mcuY < jh.Mcuv - 1 \/ mcuX < jh.Mcuh - 1
                               THEN w.rst \cup {Len(blocks)} ELSE w.rst,
                       count |-> 0], mcu + 1)
             ELSE writeScanDataOrderFrom(jh, [w EXCEPT !.blocks = blocks, !.count = @ + 1], mcu + 1)

\* The block loop of writeScanDataNonInterleaved from dpos on; w.count is blockCount.
RECURSIVE writeScanDataNonInterleavedOrderFrom(_, _, _)
writeScanDataNonInterleavedOrderFrom(jh, w, dpos) ==
    LET cmp == jh.ScanComponentOrder[1]
        ci  == jh.CmpInfo[cmp]
    IN  IF dpos >= ci.Bch * ci.Bcv THEN w
        ELSE IF dpos % ci.Bch >= ci.Nch \/ dpos \div ci.Bch >= ci.Ncv
        THEN writeScanDataNonInterleavedOrderFrom(jh, w, dpos + 1)
        ELSE IF jh.RestartInterval > 0 /\ w.count + 1 >= jh.RestartInterval
        THEN writeScanDataNonInterleavedOrderFrom(jh,
                 [blocks |-> Append(w.blocks, <<cmp, dpos>>),
                  rst |-> w.rst \cup {Len(w.blocks) + 1}, count |-> 0], dpos + 1)
        ELSE writeScanDataNonInterleavedOrderFrom(jh,
                 [w EXCEPT !.blocks = Append(@, <<cmp, dpos>>), !.count = @ + 1], dpos + 1)

\* The choice writeBaselineJpeg makes between the two scan writers.
writeBaselineScanOrder(jh) ==
    IF Len(jh.ScanComponentOrder) = 1
    THEN writeScanDataNonInterleavedOrderFrom(jh, [blocks |-> <<>>, rst |-> {}, count |-> 0], 0)
    ELSE writeScanDataOrderFrom(jh, [blocks |-> <<>>, rst |-> {}, count |-> 0], 0)

NothingWritten == [done |-> FALSE, blocks |-> <<>>, rst |-> {}]

ScanIdle ==
    /\ scFrame = <<>> /\ scRead = <<>> /\ scWrite = <<>>
    /\ scPos = <<>> /\ scSta = "idle" /\ scVisited = <<>> /\ scExpired = {}
    /\ scWritten = NothingWritten

\* Both sides have parsed the header; the reader stands before the first block.
ScanInit ==
    /\ \E f \in Frames :
          /\ scFrame = f
          /\ scRead = parseJpegHeaderFull(FrameHeaderBytes(f), 2).header
          /\ scWrite = ParseJpegHeader(FrameHeaderBytes(f)).header
    /\ scPos = NewJpegPositionState(scRead)
    /\ scSta = "DecodeInProgress" /\ scVisited = <<>> /\ scExpired = {}
    /\ scWritten = NothingWritten

\* One round of the block loop of readBaselineScan: a block is decoded at the current
\* position, then NextMcuPos; on RestartIntervalExpired the outer loop calls ResetRstw.
ScReadBlock ==
    /\ scSta \in {"DecodeInProgress", "RestartIntervalExpired"}
    /\ \E n \in {NextMcuPos(scRead, scPos)} :
          /\ scSta' = n.sta
          /\ scPos' = IF n.sta = "RestartIntervalExpired" THEN ResetRstw(scRead, n.s) ELSE n.s
          /\ scExpired' = IF n.sta = "RestartIntervalExpired"
                          THEN scExpired \cup {Len(scVisited) + 1} ELSE scExpired
    /\ scVisited' = Append(scVisited, <<scPos.cmp, scPos.dpos>>)
    /\ UNCHANGED <<scFrame, scRead, scWrite, scWritten>>

\* The scan writer runs over the whole scan.
ScWriteScan ==
    /\ ~scWritten.done
    /\ \E w \in {writeBaselineScanOrder(scWrite)} :
          scWritten' = [done |-> TRUE, blocks |-> w.blocks, rst |-> w.rst]
    /\ UNCHANGED <<scFrame, scRead, scWrite, scPos, scSta, scVisited, scExpired>>



(***************************************************************************)
(* Progressive AC scans of one component, `blocks` blocks in one row: the  *)
(* block loops of readProgressiveACFirst and readProgressiveACRefine, and  *)
(* writeProgressiveScanNonInterleaved with encodeACFirst, encodeACRefine.  *)
(* The entropy-coded data is taken after Huffman decoding: a block of the  *)
(* stream is the coefficients of its band and the EOBn symbol with its     *)
(* extra bits, if the block ends with one; what the writer writes is the   *)
(* list of the symbols and bits it hands to the BitWriter.                 *)
(***************************************************************************)
MaxProgBlocks == 4

\* The frame (SOF2), the AC table 0 (every symbol a code of 4 bits) and the scan header
\* (Ss, Se, then Ah = 1 for a refinement scan).
ProgSOF(scan) == <<255, MarkerSOF2, 0, 11, 8, 0, 8, 0, 8 * scan.blocks, 1, 1, 17, 0>>
ProgDHT(scan) ==
    <<255, MarkerDHT, 0, 19 + Len(scan.symbols), 16, 0, 0, 0, Len(scan.symbols)>>
        \o [k \in 1..12 |-> 0] \o scan.symbols
ProgSOS(scan) ==
    <<255, MarkerSOS, 0, 8, 1, 1, 0, scan.band[1], scan.band[2], IF scan.refine THEN 16 ELSE 0>>
ProgHeaderBytes(scan) ==
    SOI \o SegDQT \o ProgSOF(scan) \o ProgDHT(scan) \o SegDRI(scan) \o ProgSOS(scan)

\* Scans: the band 1..2, AC tables with EOB0, with EOB0 and EOB1, and with EOB0 to EOB2
\* (besides the symbols 0x01 and 0x11 of the coefficients), first and refinement passes.
ProgScans ==
    {[blocks |-> n, dri |-> ri, symbols |-> sy, band |-> <<1, 2>>, refine |-> rf] :
        n \in 1..MaxProgBlocks, ri \in 0..2, sy \in {<<0, 1, 17>>, <<0, 16, 1, 17>>, <<0, 16, 32, 1, 17>>},
        rf \in BOOLEAN}

\* getMaxEobRun (the reader's bound).
getMaxEobRun(acTable) ==
    MaxOf({1} \cup {Pow2(acTable.Symbols[i] \div 16) :
                       i \in {j \in 1..Len(acTable.Symbols) :
                                 /\ acTable.Symbols[j] % 16 = 0 /\ acTable.Symbols[j] # 240
                                 /\ acTable.Symbols[j] \div 16 < 15}})

\* maxEOBRun as buildEncodeTable sets it (the writer's bound), 0 without any EOBn symbol.
maxEOBRun(decodeTable) ==
    LET sizes == {i \in 0..14 : \E j \in 1..Len(decodeTable.Symbols) : decodeTable.Symbols[j] = i * 16}
    IN  IF sizes = {} THEN 0 ELSE (2 * Pow2(MaxOf(sizes))) - 1

decodeEobrunBits(s, n) == n + Pow2(s)

\* The index in the band after the last coefficient that is not zero, 1 when all are zero.
RECURSIVE BandEnd(_, _)
BandEnd(band, i) == IF i = 0 \/ band[i] # 0 THEN i + 1 ELSE BandEnd(band, i - 1)

\* The blocks a stream can hold: an EOBn symbol of the table with its extra bits ends the
\* block exactly when the last coefficient of the band is zero.
ProgTokens(scan) ==
    {t \in [band : {<<0, 0>>, <<1, 0>>, <<0, 1>>, <<1, 1>>},
            eob : {<<>>} \cup {<<s, n>> : s \in 0..2, n \in 0..3}] :
        /\ (t.band[2] = 0) = (t.eob # <<>>)
        /\ t.eob # <<>> => /\ t.eob[2] < Pow2(t.eob[1])
                           /\ \E j \in 1..Len(scan.symbols) : scan.symbols[j] = t.eob[1] * 16}
NoToken == [band |-> <<0, 0>>, eob |-> <<>>]

\* The EOB run of a block of the stream: decodeEobrunBits of its EOBn symbol, 0 without one.
TokenRun(t) == IF t.eob = <<>> THEN 0 ELSE decodeEobrunBits(t.eob[1], t.eob[2])

\* The symbols and bits of a block of the stream, as the writer names them.
RECURSIVE TokenCoefs(_, _, _)
TokenCoefs(band, i, zeroRun) ==
    IF i > Len(band) THEN <<>>
    ELSE IF band[i] = 0 THEN TokenCoefs(band, i + 1, zeroRun + 1)
    ELSE <<(<<"coef", zeroRun, band[i]>>)>> \o TokenCoefs(band, i + 1, 0)
TokenEvents(t) ==
    TokenCoefs(t.band, 1, 0)
        \o (IF t.eob = <<>> THEN <<>> ELSE <<(<<"eob", t.eob[1] * 16, t.eob[2]>>)>>)

\* One round of the block loop of readProgressiveACFirst on block t of the stream:
\* decodeACProgressiveFirst leaves bpos and Eobrun, then CheckOptimalEobrun, SkipEobrun
\* and, while the status is DecodeInProgress, NextMcuPos.
readProgressiveACFirstBlock(jh, scan, acTable, s, t) ==
    LET eob == scan.band[1] + BandEnd(t.band, Len(t.band)) - 1
        s1  == IF t.eob = <<>> THEN s ELSE [s EXCEPT !.Eobrun = TokenRun(t) - 1]
        c   == CheckOptimalEobrun(s1, eob = scan.band[1], getMaxEobRun(acTable))
        k   == SkipEobrun(jh, c.s)
    IN  IF c.err # "none" THEN [err |-> c.err, sta |-> "DecodeInProgress", s |-> c.s]
        ELSE IF k.err # "none" \/ k.sta # "DecodeInProgress" THEN k
        ELSE [err |-> "none"] @@ NextMcuPos(jh, k.s)

\* One round of the block loop of readProgressiveACRefine on a band without coefficients
\* from earlier scans: decodeACProgressiveRefineTmp (eob starts at CsTo, an EOBn symbol sets
\* Eobrun and decodeEobrunRefineTemp takes one off) and CheckOptimalEobrun, or, inside a
\* run, decodeEobrunRefineTemp alone; then NextMcuPos.
readProgressiveACRefineBlock(jh, scan, acTable, s, t) ==
    IF s.Eobrun = 0
    THEN LET eob == IF t.eob = <<>> THEN scan.band[2]
                    ELSE scan.band[1] + BandEnd(t.band, Len(t.band)) - 1
             s1  == IF t.eob = <<>> THEN s ELSE [s EXCEPT !.Eobrun = TokenRun(t) - 1]
             c   == CheckOptimalEobrun(s1, eob = scan.band[1], getMaxEobRun(acTable))
         IN  IF c.err # "none" THEN [err |-> c.err, sta |-> "DecodeInProgress", s |-> c.s]
             ELSE [err |-> "none"] @@ NextMcuPos(jh, c.s)
    ELSE [err |-> "none"] @@ NextMcuPos(jh, [s EXCEPT !.Eobrun = @ - 1])

\* encodeEOBRun: the EOBn symbol of the category and the additional bits.
encodeEOBRun(w, eobRun) ==
    IF eobRun = 0 THEN w
    ELSE LET category == CHOOSE c \in 0..14 : Pow2(c) <= eobRun /\ eobRun < 2 * Pow2(c)
         IN  [w EXCEPT !.out = Append(@, <<"eob", category * 16,
                                           IF category > 0 THEN eobRun - Pow2(category) ELSE 0>>)]

writeCorrectionBits(w) ==
    [w EXCEPT !.out = @ \o [k \in 1..Len(w.correctionBits) |-> <<"bit", w.correctionBits[k]>>],
              !.correctionBits = <<>>]

\* The coefficient loop of encodeACFirst from index i of the band on.
RECURSIVE encodeACFirstFrom(_, _, _, _)
encodeACFirstFrom(w, band, i, zeroRunLength) ==
    IF i > Len(band) THEN [w |-> w, zeroRunLength |-> zeroRunLength]
    ELSE IF band[i] # 0
    THEN Bind([encodeEOBRun(w, w.eobRun) EXCEPT !.eobRun = 0], LAMBDA w1 :
             encodeACFirstFrom(
                 [w1 EXCEPT !.out = @ \o [k \in 1..(zeroRunLength \div 16) |-> <<"coef", 15, 0>>]
                                      \o <<(<<"coef", zeroRunLength % 16, band[i]>>)>>],
                 band, i + 1, 0))
    ELSE encodeACFirstFrom(w, band, i + 1, zeroRunLength + 1)

\* encodeACFirst on the band of a block; w.eobRun is the run handed in and returned.
encodeACFirst(w, band, acTable) ==
    Bind(encodeACFirstFrom(w, band, 1, 0), LAMBDA r :
        IF r.zeroRunLength > 0
        THEN IF maxEOBRun(acTable) = 0 THEN [r.w EXCEPT !.err = "UnsupportedJpeg"]
             ELSE IF r.w.eobRun + 1 = maxEOBRun(acTable)
             THEN [encodeEOBRun(r.w, r.w.eobRun + 1) EXCEPT !.eobRun = 0]
             ELSE [r.w EXCEPT !.eobRun = @ + 1]
        ELSE r.w)

\* The first loop of encodeACRefine, over the indices of the band below eob.
RECURSIVE encodeACRefineBelow(_, _, _, _, _)
encodeACRefineBelow(w, band, i, eob, zeroRunLength) ==
    IF i >= eob THEN w
    ELSE IF band[i] = 0
    THEN IF zeroRunLength + 1 = 16
         THEN encodeACRefineBelow(writeCorrectionBits([w EXCEPT !.out = Append(@, <<"coef", 15, 0>>)]),
                                  band, i + 1, eob, 0)
         ELSE encodeACRefineBelow(w, band, i + 1, eob, zeroRunLength + 1)
    ELSE IF band[i] = 1 \/ band[i] = -1
    THEN encodeACRefineBelow(
             writeCorrectionBits([w EXCEPT !.out = Append(@, <<"coef", zeroRunLength, band[i]>>)]),
             band, i + 1, eob, 0)
    ELSE encodeACRefineBelow([w EXCEPT !.correctionBits = Append(@, band[i] % 2)],
                             band, i + 1, eob, zeroRunLength)

\* The second loop of encodeACRefine: the correction bits from eob on.
RECURSIVE encodeACRefineAbove(_, _, _)
encodeACRefineAbove(w, band, i) ==
    IF i > Len(band) THEN w
    ELSE encodeACRefineAbove(
             IF band[i] # 0 THEN [w EXCEPT !.correctionBits = Append(@, band[i] % 2)] ELSE w,
             band, i + 1)

\* The EOB run at the end of encodeACRefine, the correction bits left behind when the run
\* has reached maxEOBRun.
encodeACRefineRun_BitsKept(w, acTable) ==
    IF maxEOBRun(acTable) = 0 THEN [w EXCEPT !.err = "UnsupportedJpeg"]
    ELSE IF w.eobRun + 1 = maxEOBRun(acTable)
    THEN [encodeEOBRun(w, w.eobRun + 1) EXCEPT !.eobRun = 0]
    ELSE [w EXCEPT !.eobRun = @ + 1]

\* The EOB run at the end of encodeACRefine.
encodeACRefineRun(w, acTable) ==
    IF maxEOBRun(acTable) = 0 THEN [w EXCEPT !.err = "UnsupportedJpeg"]
    ELSE IF w.eobRun + 1 = maxEOBRun(acTable)
    THEN [writeCorrectionBits(encodeEOBRun(w, w.eobRun + 1)) EXCEPT !.eobRun = 0]
    ELSE [w EXCEPT !.eobRun = @ + 1]

\* encodeACRefine on the band of a block (CsSal = 0); eob is an index of the band.
encodeACRefine(w, band, acTable) ==
    LET last == {i \in 1..Len(band) : band[i] = 1 \/ band[i] = -1}
        eob  == IF last = {} THEN 1 ELSE MaxOf(last) + 1
    IN  Bind(IF eob > 1 /\ w.eobRun > 0
             THEN [writeCorrectionBits(encodeEOBRun(w, w.eobRun)) EXCEPT !.eobRun = 0]
             ELSE w, LAMBDA w1 :
        Bind(encodeACRefineAbove(encodeACRefineBelow(w1, band, 1, eob, 0), band, eob), LAMBDA w2 :
            IF eob <= Len(band) THEN encodeACRefineRun(w2, acTable) ELSE w2))

\* What writeProgressiveScanNonInterleaved does when blockCount has reached the restart
\* interval.  `pads` keeps the pending run at every Pad, `dropped` counts the correction
\* bits that are cleared without having been written.
writeProgressiveRestart(w, dpos, totalBlocks) ==
    Bind(IF w.eobRun > 0
         THEN [writeCorrectionBits(encodeEOBRun(w, w.eobRun)) EXCEPT !.eobRun = 0]
         ELSE w, LAMBDA w1 :
        [w1 EXCEPT !.pads = Append(@, w1.eobRun),
                   !.out = IF dpos < totalBlocks - 1 THEN Append(@, <<"rst">>) ELSE @,
                   !.eobRun = 0,
                   !.dropped = @ + Len(w1.correctionBits),
                   !.correctionBits = <<>>,
                   !.blockCount = 0])

\* The block loop of writeProgressiveScanNonInterleaved for an AC scan, from dpos on.
\* `between` keeps the correction-bit buffer and the pending run after every block.
RECURSIVE writeProgressiveScanNonInterleavedFrom(_, _, _, _, _)
writeProgressiveScanNonInterleavedFrom(jh, scan, images, w, dpos) ==
    LET cmp == jh.ScanComponentOrder[1]
        ci  == jh.CmpInfo[cmp]
        acTable == jh.HuffAC[ci.HuffAC]
    IN  IF w.err # "none" \/ dpos >= ci.Bch * ci.Bcv THEN w
        ELSE IF dpos % ci.Bch >= ci.Nch \/ dpos \div ci.Bch >= ci.Ncv
        THEN writeProgressiveScanNonInterleavedFrom(jh, scan, images, w, dpos + 1)
        ELSE Bind(IF scan.refine THEN encodeACRefine(w, images[dpos], acTable)
                  ELSE encodeACFirst(w, images[dpos], acTable), LAMBDA w1 :
             Bind([w1 EXCEPT !.between = Append(@, [bits |-> w1.correctionBits, eobRun |-> w1.eobRun])],
                  LAMBDA w2 :
                 IF w2.err # "none" THEN w2
                 ELSE IF jh.RestartInterval > 0 /\ w2.blockCount + 1 >= jh.RestartInterval
                 THEN writeProgressiveScanNonInterleavedFrom(jh, scan, images,
                          writeProgressiveRestart(w2, dpos, ci.Bch * ci.Bcv), dpos + 1)
                 ELSE writeProgressiveScanNonInterleavedFrom(jh, scan, images,
                          [w2 EXCEPT !.blockCount = @ + 1], dpos + 1)))

\* writeProgressiveScanNonInterleaved for an AC scan: the blocks, the run still pending,
\* the final Pad.
writeProgressiveScanNonInterleaved(jh, scan, images) ==
    Bind(writeProgressiveScanNonInterleavedFrom(jh, scan, images,
             [err |-> "none", eobRun |-> 0, correctionBits |-> <<>>, blockCount |-> 0,
              out |-> <<>>, pads |-> <<>>, dropped |-> 0, between |-> <<>>], 0), LAMBDA w :
        IF w.err # "none" THEN w
        ELSE Bind(IF w.eobRun > 0
                  THEN [writeCorrectionBits(encodeEOBRun(w, w.eobRun)) EXCEPT !.eobRun = 0]
                  ELSE w, LAMBDA w1 :
                 [w1 EXCEPT !.pads = Append(@, w1.eobRun)]))

\* Bands of a refinement scan with coefficients of earlier scans in them (2 and 3: not
\* zero before this scan, correction bit 0 and 1) beside new ones (1) and zeros.
RefineBands == {<<0, 0>>, <<1, 0>>, <<2, 0>>, <<0, 3>>, <<2, 1>>}

NoneRead == [read |-> FALSE, empty |-> FALSE, run |-> 0, left |-> 0, follows |-> 0,
             after |-> 0, boundary |-> FALSE, pending |-> 0]
NoneWritten == [done |-> FALSE, err |-> "none", out |-> <<>>, pads |-> <<>>, dropped |-> 0,
                between |-> <<>>]

ProgIdle ==
    /\ pgScan = <<>> /\ pgRead = <<>> /\ pgWrite = <<>>
    /\ pgPos = <<>> /\ pgSta = "idle" /\ pgErr = "none" /\ pgStream = <<>> /\ pgImage = <<>>
    /\ pgLast = NoneRead /\ pgOut = NoneWritten

\* Both sides have parsed the header; readProgressiveScanWithReader has made the position
\* state and the scan loop has called ResetRstw.
ProgInit ==
    /\ \E scan \in ProgScans :
          /\ pgScan = scan
          /\ pgRead = parseJpegHeaderFull(ProgHeaderBytes(scan), 2).header
          /\ pgWrite = ParseJpegHeader(ProgHeaderBytes(scan)).header
          /\ pgImage = [dpos \in 0..(scan.blocks - 1) |-> <<0, 0>>]
    /\ pgPos = ResetRstw(pgRead, NewJpegPositionState(pgRead))
    /\ pgSta = "DecodeInProgress" /\ pgErr = "none" /\ pgStream = <<>>
    /\ pgLast = NoneRead /\ pgOut = NoneWritten

\* One round of the block loop of the AC scan reader on the next block of the stream (no
\* part of the stream is read inside an EOB run of a refinement scan); when the restart
\* interval has expired, the restart marker is read and ResetRstw called.  pgLast notes
\* whether a block was decoded, whether its band was empty, its EOB run, the blocks that
\* were left in the restart interval, and the EOB run it came right after.
PgReadBlock ==
    /\ pgSta = "DecodeInProgress"
    /\ \E t \in (IF pgScan.refine /\ pgPos.Eobrun > 0 THEN {NoToken} ELSE ProgTokens(pgScan)) :
       \E r \in {IF pgScan.refine
                 THEN readProgressiveACRefineBlock(pgRead, pgScan, pgRead.HuffAC[0], pgPos, t)
                 ELSE readProgressiveACFirstBlock(pgRead, pgScan, pgRead.HuffAC[0], pgPos, t)} :
          /\ pgErr' = r.err
          /\ pgSta' = IF r.err # "none" THEN "failed"
                      ELSE IF r.sta = "RestartIntervalExpired" THEN "DecodeInProgress" ELSE r.sta
          /\ pgPos' = IF r.err = "none" /\ r.sta = "RestartIntervalExpired"
                      THEN ResetRstw(pgRead, r.s) ELSE r.s
          /\ pgStream' = (IF pgScan.refine /\ pgPos.Eobrun > 0 THEN pgStream
                          ELSE pgStream \o TokenEvents(t))
                             \o (IF r.err = "none" /\ r.sta = "RestartIntervalExpired"
                                 THEN <<(<<"rst">>)>> ELSE <<>>)
          /\ pgImage' = [pgImage EXCEPT ![pgPos.dpos] = t.band]
          /\ pgLast' = [read |-> ~(pgScan.refine /\ pgPos.Eobrun > 0),
                        empty |-> t.band = <<0, 0>>,
                        run |-> IF pgScan.refine /\ pgPos.Eobrun > 0 THEN 0 ELSE TokenRun(t),
                        left |-> pgPos.rstw,
                        follows |-> pgLast.after,
                        after |-> IF r.err = "none" /\ r.sta = "RestartIntervalExpired" THEN 0
                                  ELSE IF pgScan.refine /\ pgPos.Eobrun > 0 THEN pgLast.after
                                  ELSE TokenRun(t),
                        boundary |-> r.err = "none" /\ r.sta = "RestartIntervalExpired",
                        pending |-> r.s.Eobrun]
    /\ UNCHANGED <<pgScan, pgRead, pgWrite, pgOut>>

\* The scan writer on the bands of a scan the reader has accepted.
PgWriteScan ==
    /\ pgSta = "ScanCompleted" /\ ~pgOut.done
    /\ \E w \in {writeProgressiveScanNonInterleaved(pgWrite, pgScan, pgImage)} :
          pgOut' = [done |-> TRUE, err |-> w.err, out |-> w.out, pads |-> w.pads,
                    dropped |-> w.dropped, between |-> w.between]
    /\ UNCHANGED <<pgScan, pgRead, pgWrite, pgPos, pgSta, pgErr, pgStream, pgImage, pgLast>>

\* The scan writer on the bands of a refinement scan that earlier scans have filled.
PgWriteRefined ==
    /\ pgSta = "DecodeInProgress" /\ pgStream = <<>> /\ pgLast = NoneRead /\ pgScan.refine
    /\ \E img \in [0..(pgScan.blocks - 1) -> RefineBands] :
          /\ pgImage' = img
          /\ \E w \in {writeProgressiveScanNonInterleaved(pgWrite, pgScan, img)} :
                pgOut' = [done |-> TRUE, err |-> w.err, out |-> w.out, pads |-> w.pads,
                          dropped |-> w.dropped, between |-> w.between]
    /\ pgSta' = "written"
    /\ UNCHANGED <<pgScan, pgRead, pgWrite, pgPos, pgErr, pgStream, pgLast>>



(***************************************************************************)
(* The coefficient coder: LeptonEncoder.writeCoefficientsBlock             *)
(* (src/unnamed/part_003) against LeptonDecoder.decodeBlock                *)
(* (src/unnamed/part_007), each with its own Model, its own image and its  *)
(* own NeighborSummary cache.  The VPX coder between them is a channel of  *)
(* coded bits: get returns the bit put was given when the reader's branch  *)
(* has the probability the writer's branch had (SpecVpx checks the coder   *)
(* itself); what a reader returns after a read with another probability   *)
(* is not followed, the decoder stops as "desync".  A Model is the map of  *)
(* the branches that were touched, every other branch being NewBranch.     *)
(* Arithmetic is on int32 as in the code; the blocks offered keep every    *)
(* int32 intermediate far from overflow.                                   *)
(***************************************************************************)
MaxCoefBlocks == 4

MaxExponent == 11
ResidualNoiseFloor == 7

Unzigzag49TR ==
    << 9, 17, 10, 11, 18, 25, 33, 26, 19, 12, 13, 20, 27, 34, 41, 49,
       42, 35, 28, 21, 14, 15, 22, 29, 36, 43, 50, 57, 58, 51, 44, 37,
       30, 23, 31, 38, 45, 52, 59, 60, 53, 46, 39, 47, 54, 61, 62, 55,
       63 >>

IcosBased8192Scaled == << 0, 11363, 10703, 9633, 8192, 6436, 4433, 2260 >>

IcosBased8192ScaledPM == << 8192, -11363, 10703, -9633, 8192, -6436, 4433, -2260 >>

FreqMax == << 931, 985, 968, 1020, 968, 1020, 1020, 932, 985, 967, 1020, 969, 1020, 1020 >>

NonZeroToBin ==
    << 0, 1, 2, 3, 4, 4, 5, 5, 5, 6, 6, 6, 6, 7, 7, 7, 7, 7, 7, 7, 7, 8, 8, 8, 8, 8 >>

NonZeroToBin7x7 ==
    << 0, 0, 1, 2, 3, 3, 4, 4, 4, 5, 5, 5, 5, 6, 6, 6, 6, 6, 6, 6, 6, 7, 7, 7, 7, 7,
       7, 7, 7, 7, 7, 7, 8, 8, 8, 8, 8, 8, 8, 8, 8, 8, 8, 8, 8, 8, 8, 8, 8, 8 >>

\* Go's x / y on int32, which truncates towards zero.
QuoInt32(x, y) ==
    IF (x >= 0) = (y > 0) THEN (IF x >= 0 THEN x ELSE -x) \div (IF y > 0 THEN y ELSE -y)
    ELSE -((IF x >= 0 THEN x ELSE -x) \div (IF y > 0 THEN y ELSE -y))

abs32(x) == IF x < 0 THEN -x ELSE x

\* <<F(0), ..., F(7)>>, every element computed once.
Array8(F(_)) == << F(0), F(1), F(2), F(3), F(4), F(5), F(6), F(7) >>

Zeros8 == << 0, 0, 0, 0, 0, 0, 0, 0 >>

\* AlignedBlock{}: RawData[i] is block[i + 1].
emptyBlock == Zeros8 \o Zeros8 \o Zeros8 \o Zeros8 \o Zeros8 \o Zeros8 \o Zeros8 \o Zeros8

\* var raster [8][8]int32: raster[col][row] is raster[col + 1][row + 1].
ZeroRaster == << Zeros8, Zeros8, Zeros8, Zeros8, Zeros8, Zeros8, Zeros8, Zeros8 >>

emptyNeighborSummary ==
    [EdgePixelsH |-> Zeros8, EdgePixelsV |-> Zeros8, EdgeCoefsH |-> Zeros8,
     EdgeCoefsV |-> Zeros8, NumNonZeros |-> 0]

NoNeighbors == [leftPresent |-> FALSE, abovePresent |-> FALSE, allPresent |-> FALSE]
TopOnly == [leftPresent |-> FALSE, abovePresent |-> TRUE, allPresent |-> FALSE]
LeftOnly == [leftPresent |-> TRUE, abovePresent |-> FALSE, allPresent |-> FALSE]
AllNeighbors == [leftPresent |-> TRUE, abovePresent |-> TRUE, allPresent |-> TRUE]

\* NewQuantizationTables dividing FREQ_MAX by q rounded down.
NewQuantizationTables_FloorDivision(table) ==
    Bind([t \in 0..63 |-> table[(CHOOSE z \in 0..63 : ZigzagToTransposed[z + 1] = t) + 1]],
         LAMBDA q :
        [QTable |-> Array8(LAMBDA c : Array8(LAMBDA r : q[(c * 8) + r])),
         MinNoiseThreshold |->
             [i \in 0..13 |->
                 LET coordTR == IF i < 7 THEN (i + 1) * 8 ELSE i - 6
                     qv      == q[coordTR]
                     freqMax == IF qv # 0 THEN FreqMax[i + 1] \div qv
                                ELSE FreqMax[i + 1] - 1
                     maxLen  == BitLen(freqMax)
                 IN  IF qv < 9 /\ maxLen > ResidualNoiseFloor
                     THEN maxLen - ResidualNoiseFloor ELSE 0]])

\* NewQuantizationTables: QTable in transposed order and MinNoiseThreshold, from a table
\* in zigzag order.
NewQuantizationTables(table) ==
    Bind([t \in 0..63 |-> table[(CHOOSE z \in 0..63 : ZigzagToTransposed[z + 1] = t) + 1]],
         LAMBDA q :
        [QTable |-> Array8(LAMBDA c : Array8(LAMBDA r : q[(c * 8) + r])),
         MinNoiseThreshold |->
             [i \in 0..13 |->
                 LET coordTR == IF i < 7 THEN (i + 1) * 8 ELSE i - 6
                     qv      == q[coordTR]
                     freqMax == IF qv # 0 THEN (FreqMax[i + 1] + qv - 1) \div qv
                                ELSE FreqMax[i + 1] - 1
                     maxLen  == BitLen(freqMax)
                 IN  IF qv < 9 /\ maxLen > ResidualNoiseFloor
                     THEN maxLen - ResidualNoiseFloor ELSE 0]])

\* qt.GetQTransposed(coordTR), which is also qt.GetQ(coordTR).
GetQTransposed(qt, coordTR) == qt.QTable[(coordTR \div 8) + 1][(coordTR % 8) + 1]

\* The branch of a Model that stands at index i of the array named by prefix.  Prefixes:
\*   <<1, color, bin, 0, 0>>        NumNonZerosCounts7x7[bin]
\*   <<2, color, bin, zig49, len>>  Counts[bin][zig49].ExponentCounts[len]
\*   <<3, color, bin, zig49, 0>>    Counts[bin][zig49].ResidualNoiseCounts
\*   <<4, color, eob, bin, 0>>      NumNonZerosCounts1x8[eob][bin]
\*   <<5, color, eob, bin, 0>>      NumNonZerosCounts8x1[eob][bin]
\*   <<6, color, bin, zig15, len>>  CountsX[bin][zig15].ExponentCounts[len]
\*   <<7, color, bin, zig15, 0>>    CountsX[bin][zig15].ResidualNoiseCounts
\*   <<8, color, i1, i2, 0>>        ResidualThresholdCounts[i1][i2]
\*   <<9, color, i, 0, 0>>          SignCounts[i]
\*   <<10, 0, len, len2, 0>>        CountsDC[len].ExponentCounts[len2]
\*   <<11, 0, len, 0, 0>>           CountsDC[len].ResidualNoiseCounts
BranchAt(prefix, i) == Append(prefix, i)

\* NewModel: no branch touched.
NewModel == << >>

BranchOf(model, key) ==
    IF model # << >> /\ key \in DOMAIN model THEN model[key] ELSE NewBranch

SetBranch(model, key, counts) ==
    IF model = << >> THEN key :> counts
    ELSE IF key \in DOMAIN model THEN [model EXCEPT ![key] = counts]
    ELSE (key :> counts) @@ model

\* VPXBoolWriter.put: the bit is coded with the probability of the branch, and the
\* branch records it.  The writer is [model, events, err], an event being the branch, the
\* probability and the bit; nothing is written after the block was refused.
putCtx(w, bit, key) ==
    IF w.err # "none" THEN w
    ELSE Bind(BranchOf(w.model, key), LAMBDA counts :
             [w EXCEPT !.model  = SetBranch(w.model, key, RecordAndUpdateBit(counts, bit)),
                       !.events = Append(w.events, << key, GetProbability(counts), bit >>)])

\* VPXBoolReader.get: the next coded bit, read with the probability of the branch, which
\* records it.  The reader is [model, stream, pos, keys, err, bit], bit being the bit read.
getCtx(r, key) ==
    IF r.err # "none" THEN [r EXCEPT !.bit = FALSE]
    ELSE IF r.pos >= Len(r.stream) THEN [r EXCEPT !.err = "desync", !.bit = FALSE]
    ELSE Bind(BranchOf(r.model, key), LAMBDA counts :
         Bind(r.stream[r.pos + 1], LAMBDA e :
             IF GetProbability(counts) # e[2] THEN [r EXCEPT !.err = "desync", !.bit = FALSE]
             ELSE [r EXCEPT !.model = SetBranch(r.model, key, RecordAndUpdateBit(counts, e[3])),
                            !.pos = r.pos + 1,
                            !.keys = Append(r.keys, key),
                            !.bit = e[3]]))

\* PutGrid: the bits of v from the highest, each on the branch of the bits before it.
RECURSIVE PutGridFrom(_, _, _)
PutGridFrom(st, v, branches) ==
    IF st.i < 0 THEN st.w
    ELSE Bind([w |-> putCtx(st.w, Bit(v, st.i) = 1, BranchAt(branches, st.soFar)),
               i |-> st.i - 1,
               soFar |-> (2 * st.soFar) + Bit(v, st.i)],
              LAMBDA next : PutGridFrom(next, v, branches))

PutGridCtx(w, v, branches, A) ==
    PutGridFrom([w |-> w, i |-> BitLen(A) - 2, soFar |-> 1], v, branches)

\* GetGrid: the reader and the value read, [r, val].
RECURSIVE GetGridFrom(_, _, _)
GetGridFrom(st, branches, A) ==
    IF st.i = 0 THEN [r |-> st.r, val |-> st.soFar - A]
    ELSE Bind(getCtx(st.r, BranchAt(branches, st.soFar)), LAMBDA r1 :
         Bind([r |-> r1, i |-> st.i - 1, soFar |-> (2 * st.soFar) + (IF r1.bit THEN 1 ELSE 0)],
              LAMBDA next : GetGridFrom(next, branches, A)))

GetGridCtx(r, branches, A) == GetGridFrom([r |-> r, i |-> BitLen(A) - 1, soFar |-> 1], branches, A)

\* PutNBits: the numBits low bits of bits, bit i on branches[i], from the highest.
RECURSIVE PutNBits(_, _, _, _)
PutNBits(w, bits, numBits, branches) ==
    IF numBits <= 0 THEN w
    ELSE Bind(putCtx(w, Bit(bits, numBits - 1) = 1, BranchAt(branches, numBits - 1)), LAMBDA w1 :
             PutNBits(w1, bits, numBits - 1, branches))

\* GetNBits: [r, val], val being coef shifted left by n with the n bits read below it.
RECURSIVE GetNBitsFrom(_, _, _, _)
GetNBitsFrom(r, n, branches, coef) ==
    IF n <= 0 THEN [r |-> r, val |-> coef]
    ELSE Bind(getCtx(r, BranchAt(branches, n - 1)), LAMBDA r1 :
         Bind((2 * coef) + (IF r1.bit THEN 1 ELSE 0), LAMBDA coef1 :
             GetNBitsFrom(r1, n - 1, branches, coef1)))

GetNBits(r, n, branches) == GetNBitsFrom(r, n, branches, 0)

\* PutUnaryEncoded: v ones and, when v is below the A branches, a zero.
RECURSIVE PutUnaryEncodedFrom(_, _, _, _, _)
PutUnaryEncodedFrom(w, v, branches, A, i) ==
    IF i >= A THEN w
    ELSE Bind(putCtx(w, v # i, BranchAt(branches, i)), LAMBDA w1 :
             IF v = i THEN w1 ELSE PutUnaryEncodedFrom(w1, v, branches, A, i + 1))

PutUnaryEncoded(w, v, branches, A) == PutUnaryEncodedFrom(w, v, branches, A, 0)

\* GetUnaryEncoded: [r, val], the number of ones before the first zero, at most A.
RECURSIVE GetUnaryEncodedFrom(_, _, _, _)
GetUnaryEncodedFrom(r, branches, A, value) ==
    IF value >= A THEN [r |-> r, val |-> A]
    ELSE Bind(getCtx(r, BranchAt(branches, value)), LAMBDA r1 :
             IF r1.bit THEN GetUnaryEncodedFrom(r1, branches, A, value + 1)
             ELSE [r |-> r1, val |-> value])

GetUnaryEncoded(r, branches, A) == GetUnaryEncodedFrom(r, branches, A, 0)

calcSignIndex(val) == IF val = 0 THEN 0 ELSE IF val > 0 THEN 1 ELSE 2

\* writeLengthSignCoef; a coefficient longer than the exponent branches is refused.
CoefficientOutOfRange(w) == [w EXCEPT !.err = "CoefficientOutOfRange"]

\* writeLengthSignCoef coding the sign the other way round.
writeLengthSignCoef_SignFlipped(w, coef, magnitudeBranches, A, signBranch, bitsBranch) ==
    Bind(abs32(coef), LAMBDA absCoef :
    Bind(BitLen(absCoef), LAMBDA coefBitLen :
        IF coefBitLen > A THEN CoefficientOutOfRange(w)
        ELSE Bind(PutUnaryEncoded(w, coefBitLen, magnitudeBranches, A), LAMBDA w1 :
             Bind(IF coef # 0 THEN putCtx(w1, coef < 0, signBranch) ELSE w1, LAMBDA w2 :
                 IF coefBitLen > 1 THEN PutNBits(w2, absCoef, coefBitLen - 1, bitsBranch)
                 ELSE w2))))

writeLengthSignCoef(w, coef, magnitudeBranches, A, signBranch, bitsBranch) ==
    Bind(abs32(coef), LAMBDA absCoef :
    Bind(BitLen(absCoef), LAMBDA coefBitLen :
        IF coefBitLen > A THEN CoefficientOutOfRange(w)
        ELSE Bind(PutUnaryEncoded(w, coefBitLen, magnitudeBranches, A), LAMBDA w1 :
             Bind(IF coef # 0 THEN putCtx(w1, coef > 0, signBranch) ELSE w1, LAMBDA w2 :
                 IF coefBitLen > 1 THEN PutNBits(w2, absCoef, coefBitLen - 1, bitsBranch)
                 ELSE w2))))

\* readLengthSignCoef: [r, val].
readLengthSignCoef(r, magnitudeBranches, A, signBranch, bitsBranch) ==
    Bind(GetUnaryEncoded(r, magnitudeBranches, A), LAMBDA len :
        IF len.val = 0 THEN [r |-> len.r, val |-> 0]
        ELSE Bind(getCtx(len.r, signBranch), LAMBDA r1 :
             Bind(IF len.val > 1 THEN GetNBits(r1, len.val - 1, bitsBranch)
                  ELSE [r |-> r1, val |-> 0], LAMBDA bits :
                 [r   |-> bits.r,
                  val |-> Int16(IF r1.bit THEN bits.val + Pow2(len.val - 1)
                                ELSE -(bits.val + Pow2(len.val - 1)))])))

\* Model.getDCBranches: the exponent, sign and residual branches of a DC coefficient.
getDCBranches(uncertainty, uncertainty2, colorIndex) ==
    Bind(IF BitLen(abs32(uncertainty)) < 11 THEN BitLen(abs32(uncertainty)) ELSE 11,
         LAMBDA lenAbsMxmClamp :
        [exp  |-> << 10, 0, lenAbsMxmClamp, BitLen(abs32(uncertainty2)), 0 >>,
         sign |-> BranchAt(<< 9, colorIndex, 0, 0, 0 >>, calcSignIndex(uncertainty2) + 1),
         bits |-> << 11, 0, lenAbsMxmClamp, 0, 0 >>])

WriteDC(w, colorIndex, coef, uncertainty, uncertainty2) ==
    Bind(getDCBranches(uncertainty, uncertainty2, colorIndex), LAMBDA b :
        writeLengthSignCoef(w, coef, b.exp, MaxExponent, b.sign, b.bits))

ReadDC(r, colorIndex, uncertainty, uncertainty2) ==
    Bind(getDCBranches(uncertainty, uncertainty2, colorIndex), LAMBDA b :
        readLengthSignCoef(r, b.exp, MaxExponent, b.sign, b.bits))

\* ModelPerColor.getCoefBranches.
getCoefBranches(colorIndex, numNonZerosBin, zig49, bestPriorBitLen) ==
    [exp  |-> << 2, colorIndex, numNonZerosBin, zig49, bestPriorBitLen >>,
     sign |-> BranchAt(<< 9, colorIndex, 0, 0, 0 >>, 0),
     bits |-> << 3, colorIndex, numNonZerosBin, zig49, 0 >>]

WriteCoef(w, colorIndex, coef, zig49, numNonZerosBin, bestPriorBitLen) ==
    Bind(getCoefBranches(colorIndex, numNonZerosBin, zig49, bestPriorBitLen), LAMBDA b :
        writeLengthSignCoef(w, coef, b.exp, MaxExponent, b.sign, b.bits))

ReadCoef(r, colorIndex, zig49, numNonZerosBin, bestPriorBitLen) ==
    Bind(getCoefBranches(colorIndex, numNonZerosBin, zig49, bestPriorBitLen), LAMBDA b :
        readLengthSignCoef(r, b.exp, MaxExponent, b.sign, b.bits))

\* ModelPerColor.getNonZeroCountsEdge.
getNonZeroCountsEdge(colorIndex, horizontal, estEob, numNonZerosBin) ==
    << IF horizontal THEN 5 ELSE 4, colorIndex, estEob, numNonZerosBin, 0 >>

\* ModelPerColor.getResidualThresholdCounts.
getResidualThresholdCounts(colorIndex, bestPriorAbs, minThreshold, length) ==
    << 8, colorIndex,
       IF (bestPriorAbs % 65536) \div Pow2(minThreshold) < Pow2(1 + ResidualNoiseFloor) - 1
       THEN (bestPriorAbs % 65536) \div Pow2(minThreshold) ELSE Pow2(1 + ResidualNoiseFloor) - 1,
       IF length - minThreshold - 2 < ResidualNoiseFloor - 2
       THEN length - minThreshold - 2 ELSE ResidualNoiseFloor - 2,
       0 >>

\* The branches of an edge coefficient: its exponent and sign branches.
EdgeBranches(colorIndex, zig15offset, numNonZerosEdge, bestPrior) ==
    Bind(IF BitLen(abs32(bestPrior)) < MaxExponent - 1 THEN BitLen(abs32(bestPrior))
         ELSE MaxExponent - 1, LAMBDA bestPriorBitLen :
        [exp  |-> << 6, colorIndex, numNonZerosEdge - 1, zig15offset, bestPriorBitLen >>,
         sign |-> BranchAt(<< 9, colorIndex, calcSignIndex(Int16(bestPrior)), 0, 0 >>,
                           bestPriorBitLen),
         res  |-> << 7, colorIndex, numNonZerosEdge - 1, zig15offset, 0 >>])

\* The loop of WriteEdgeCoefficient over the bits above the noise threshold.
RECURSIVE WriteThresholdBits(_, _, _, _)
WriteThresholdBits(st, absCoef, minThreshold, threshProb) ==
    IF st.i < minThreshold THEN st
    ELSE Bind(Bit(absCoef, st.i), LAMBDA curBit :
         Bind([w |-> putCtx(st.w, curBit = 1, BranchAt(threshProb, st.soFar)),
               i |-> st.i - 1,
               soFar |-> IF (2 * st.soFar) + curBit < Pow2(ResidualNoiseFloor) - 1
                         THEN (2 * st.soFar) + curBit ELSE Pow2(ResidualNoiseFloor) - 1],
              LAMBDA next : WriteThresholdBits(next, absCoef, minThreshold, threshProb)))

\* ModelPerColor.WriteEdgeCoefficient.
WriteEdgeCoefficient(w, colorIndex, qt, coef, zig15offset, numNonZerosEdge, bestPrior) ==
    Bind(EdgeBranches(colorIndex, zig15offset, numNonZerosEdge, bestPrior), LAMBDA b :
    Bind(abs32(coef), LAMBDA absCoef :
    Bind(BitLen(absCoef), LAMBDA length :
        IF length > MaxExponent THEN CoefficientOutOfRange(w)
        ELSE Bind(PutUnaryEncoded(w, length, b.exp, MaxExponent), LAMBDA w1 :
             IF coef = 0 THEN w1
             ELSE Bind(putCtx(w1, coef >= 0, b.sign), LAMBDA w2 :
                  IF length <= 1 THEN w2
                  ELSE Bind(qt.MinNoiseThreshold[zig15offset], LAMBDA minThreshold :
                       Bind(IF length - 2 >= minThreshold
                            THEN WriteThresholdBits(
                                     [w |-> w2, i |-> length - 2, soFar |-> 1], absCoef,
                                     minThreshold,
                                     getResidualThresholdCounts(colorIndex, abs32(bestPrior),
                                                                minThreshold, length))
                            ELSE [w |-> w2, i |-> length - 2], LAMBDA st :
                           IF st.i >= 0 THEN PutNBits(st.w, absCoef, st.i + 1, b.res)
                           ELSE st.w)))))))

\* The loop of ReadEdgeCoefficient over the bits above the noise threshold.
RECURSIVE ReadThresholdBits(_, _, _)
ReadThresholdBits(st, minThreshold, threshProb) ==
    IF st.i < minThreshold THEN st
    ELSE Bind(getCtx(st.r, BranchAt(threshProb, st.soFar)), LAMBDA r1 :
         Bind(Int16((2 * st.coef) + (IF r1.bit THEN 1 ELSE 0)), LAMBDA coef :
         Bind([r |-> r1, i |-> st.i - 1, coef |-> coef,
               soFar |-> IF coef < Pow2(ResidualNoiseFloor) - 1 THEN coef
                         ELSE Pow2(ResidualNoiseFloor) - 1],
              LAMBDA next : ReadThresholdBits(next, minThreshold, threshProb))))

\* ModelPerColor.ReadEdgeCoefficient: [r, val].
ReadEdgeCoefficient(r, colorIndex, qt, zig15offset, numNonZerosEdge, bestPrior) ==
    Bind(EdgeBranches(colorIndex, zig15offset, numNonZerosEdge, bestPrior), LAMBDA b :
    Bind(GetUnaryEncoded(r, b.exp, MaxExponent), LAMBDA len :
        IF len.val = 0 THEN [r |-> len.r, val |-> 0]
        ELSE Bind(getCtx(len.r, b.sign), LAMBDA r1 :
             Bind(IF len.val <= 1 THEN [r |-> r1, val |-> 1]
                  ELSE Bind(qt.MinNoiseThreshold[zig15offset], LAMBDA minThreshold :
                       Bind(IF len.val - 2 >= minThreshold
                            THEN ReadThresholdBits(
                                     [r |-> r1, i |-> len.val - 2, coef |-> 1, soFar |-> 1],
                                     minThreshold,
                                     getResidualThresholdCounts(colorIndex, abs32(bestPrior),
                                                                minThreshold, len.val))
                            ELSE [r |-> r1, i |-> len.val - 2, coef |-> 1], LAMBDA st :
                           IF st.i >= 0
                           THEN Bind(GetNBitsFrom(st.r, st.i + 1, b.res, st.coef), LAMBDA n :
                                    [r |-> n.r, val |-> Int16(n.val)])
                           ELSE [r |-> st.r, val |-> st.coef])), LAMBDA c :
                 [r |-> c.r, val |-> IF r1.bit THEN c.val ELSE Int16(-c.val)]))))

\* pt.CalcNumNonZeros7x7ContextBin.
CalcNumNonZeros7x7ContextBin(pt, neighbors) ==
    LET numNonZerosAbove == IF pt.allPresent \/ pt.abovePresent
                            THEN neighbors.NeighborContextAbove.NumNonZeros ELSE 0
        numNonZerosLeft  == IF pt.allPresent \/ pt.leftPresent
                            THEN neighbors.NeighborContextLeft.NumNonZeros ELSE 0
        numNonZerosContext ==
            IF ~pt.allPresent /\ pt.abovePresent /\ ~pt.leftPresent
            THEN (numNonZerosAbove + 1) \div 2
            ELSE IF ~pt.allPresent /\ pt.leftPresent /\ ~pt.abovePresent
            THEN (numNonZerosLeft + 1) \div 2
            ELSE IF pt.allPresent \/ (pt.leftPresent /\ pt.abovePresent)
            THEN (numNonZerosAbove + numNonZerosLeft + 2) \div 4
            ELSE 0
    IN  NonZeroToBin[(IF numNonZerosContext >= 26 THEN 25 ELSE numNonZerosContext) + 1]

\* Entry idx of pt.CalcCoefficientContext7x7AavgBlock, for the idx of a 7x7 coefficient.
CalcCoefficientContext7x7AavgBlock(pt, neighbors, idx) ==
    IF pt.allPresent
    THEN (((abs32(neighbors.Left[idx + 1]) + abs32(neighbors.Above[idx + 1])) * 13)
             + (abs32(neighbors.AboveLeft[idx + 1]) * 6)) \div 32
    ELSE IF pt.leftPresent THEN abs32(neighbors.Left[idx + 1])
    ELSE IF pt.abovePresent THEN abs32(neighbors.Above[idx + 1])
    ELSE 0

\* The sum over the rows of column col of weights[row] * raster[col][row].
ColumnSum(raster, col, weights) ==
    SumSeq(Array8(LAMBDA row : raster[col + 1][row + 1] * weights[row + 1]))

\* The sum over the columns from first on of weights[col] * raster[col][row].
RowSum(raster, row, weights, first) ==
    SumSeq(Array8(LAMBDA col : IF col < first THEN 0
                               ELSE weights[col + 1] * raster[col + 1][row + 1]))

\* pt.PredictCurrentEdges: [h, v].
PredictCurrentEdges(neighbors, raster) ==
    [h |-> Array8(LAMBDA col :
               IF col = 0 THEN neighbors.NeighborContextAbove.EdgeCoefsH[1]
               ELSE neighbors.NeighborContextAbove.EdgeCoefsH[col + 1]
                        - ColumnSum(raster, col, IcosBased8192Scaled)),
     v |-> Array8(LAMBDA row :
               neighbors.NeighborContextLeft.EdgeCoefsV[row + 1]
                   - RowSum(raster, row, IcosBased8192Scaled, 1))]

\* pt.PredictNextEdges: [h, v].
PredictNextEdges(raster) ==
    [h |-> Array8(LAMBDA col :
               IF col = 0 THEN 0 ELSE ColumnSum(raster, col, IcosBased8192ScaledPM)),
     v |-> Array8(LAMBDA row : RowSum(raster, row, IcosBased8192ScaledPM, 0))]

\* pt.CalcCoefficientContext8Lak: [err, val].
CalcCoefficientContext8Lak(pt, qt, coefficientTR, pred, horizontal) ==
    IF ~pt.allPresent /\ ((horizontal /\ ~pt.abovePresent) \/ (~horizontal /\ ~pt.leftPresent))
    THEN [err |-> "none", val |-> 0]
    ELSE Bind(GetQTransposed(qt, coefficientTR) * 8192, LAMBDA div :
             IF div = 0 THEN [err |-> "UnsupportedJpegWithZeroIdct0", val |-> 0]
             ELSE [err |-> "none",
                   val |-> QuoInt32(pred[(IF horizontal THEN coefficientTR \div 8
                                          ELSE coefficientTR) + 1], div)])

\* The horizontal pass of runIDCTInternal on one row y: x[c + 1] is input[c][y], the
\* result is intermed[y].
IDCTHorizontal(x) ==
    Bind(<< (x[1] * 2048) + 128, x[5] * 2048, x[7], x[3],
            (565 * (x[2] + x[8])) + (2276 * x[2]),
            (565 * (x[2] + x[8])) - (3406 * x[8]),
            (2408 * (x[6] + x[4])) - (799 * x[6]),
            (2408 * (x[6] + x[4])) - (4017 * x[4]) >>, LAMBDA a :
    Bind(<< a[1] - a[2], a[5] + a[7], (1108 * (a[4] + a[3])) - (3784 * a[3]),
            (1108 * (a[4] + a[3])) + (1568 * a[4]), a[5] - a[7], a[6] - a[8],
            a[6] + a[8], 0, a[1] + a[2] >>, LAMBDA b :
    Bind(<< b[1] - b[3], b[2], Shr((181 * (b[5] + b[6])) + 128, 8), b[1] + b[3],
            Shr((181 * (b[5] - b[6])) + 128, 8), 0, b[7], b[9] + b[4], b[9] - b[4] >>,
         LAMBDA c :
        << Shr(c[8] + c[2], 8), Shr(c[4] + c[3], 8), Shr(c[1] + c[5], 8), Shr(c[9] + c[7], 8),
           Shr(c[9] - c[7], 8), Shr(c[1] - c[5], 8), Shr(c[4] - c[3], 8), Shr(c[8] - c[2], 8) >>)))

\* The vertical pass of runIDCTInternal on one column x: y[k + 1] is intermed[k][x], the
\* result is output[0][x], ..., output[7][x].
IDCTVertical(y) ==
    Bind(<< (y[1] * 256) + 8192, y[5] * 256, y[7], y[3],
            Shr((565 * (y[2] + y[8])) + 4 + (2276 * y[2]), 3),
            Shr((565 * (y[2] + y[8])) + 4 - (3406 * y[8]), 3),
            Shr((2408 * (y[6] + y[4])) + 4 - (799 * y[6]), 3),
            Shr((2408 * (y[6] + y[4])) + 4 - (4017 * y[4]), 3) >>, LAMBDA a :
    Bind(<< a[1] - a[2], a[5] + a[7], Shr((1108 * (a[4] + a[3])) + 4 - (3784 * a[3]), 3),
            Shr((1108 * (a[4] + a[3])) + 4 + (1568 * a[4]), 3), a[5] - a[7], a[6] - a[8],
            a[6] + a[8], 0, a[1] + a[2] >>, LAMBDA b :
    Bind(<< b[1] - b[3], b[2], Shr((181 * (b[5] + b[6])) + 128, 8), b[1] + b[3],
            Shr((181 * (b[5] - b[6])) + 128, 8), 0, b[7], b[9] + b[4], b[9] - b[4] >>,
         LAMBDA c :
        << Int16(Shr(c[8] + c[2], 11)), Int16(Shr(c[4] + c[3], 11)),
           Int16(Shr(c[1] + c[5], 11)), Int16(Shr(c[9] + c[7], 11)),
           Int16(Shr(c[9] - c[7], 11)), Int16(Shr(c[1] - c[5], 11)),
           Int16(Shr(c[4] - c[3], 11)), Int16(Shr(c[8] - c[2], 11)) >>)))

\* runIDCTForPrediction: the pixels by column, pixels[row][col] is the result[col + 1][row + 1].
runIDCTForPrediction(raster) ==
    Bind(Array8(LAMBDA y : IDCTHorizontal(Array8(LAMBDA c : raster[c + 1][y + 1]))),
         LAMBDA intermed :
        Array8(LAMBDA x : IDCTVertical(Array8(LAMBDA k : intermed[k + 1][x + 1]))))

\* calcPred: a1 plus half of a1 - a2, rounded towards zero.
calcPred(a1, a2, use16bit) ==
    Array8(LAMBDA i :
        Bind(IF use16bit THEN Int16(a1[i + 1] - a2[i + 1]) ELSE a1[i + 1] - a2[i + 1],
             LAMBDA pixelDelta :
            Int16(a1[i + 1] + Shr(pixelDelta + (IF pixelDelta < 0 THEN 1 ELSE 0), 1))))

MinOf(S) == CHOOSE m \in S : \A x \in S : m <= x

\* pt.AdvPredictDCPix.
AdvPredictDCPix(pt, raster, q0, neighbors, use16bitAdvPredict, use16bitDCEstimate) ==
    Bind(runIDCTForPrediction(raster), LAMBDA cols :
    Bind(Array8(LAMBDA k : Array8(LAMBDA x : cols[x + 1][k + 1])), LAMBDA pixelsSansDC :
    Bind([vPred |-> calcPred(pixelsSansDC[1], pixelsSansDC[2], use16bitAdvPredict),
          hPred |-> calcPred(cols[1], cols[2], use16bitAdvPredict),
          NextEdgePixelsV |-> calcPred(pixelsSansDC[8], pixelsSansDC[7], use16bitDCEstimate),
          NextEdgePixelsH |-> calcPred(cols[8], cols[7], use16bitDCEstimate)], LAMBDA p :
    Bind([horizDiff |-> Array8(LAMBDA i :
                            Int16(neighbors.NeighborContextLeft.EdgePixelsH[i + 1]
                                      - p.hPred[i + 1])),
          vertDiff  |-> Array8(LAMBDA i :
                            Int16(neighbors.NeighborContextAbove.EdgePixelsV[i + 1]
                                      - p.vPred[i + 1]))], LAMBDA d :
        IF ~pt.allPresent /\ ~pt.leftPresent /\ ~pt.abovePresent
        THEN [PredictedDC |-> 0, Uncertainty |-> 0, Uncertainty2 |-> 0,
              NextEdgePixelsH |-> p.NextEdgePixelsH, NextEdgePixelsV |-> p.NextEdgePixelsV]
        ELSE Bind([diffs |-> IF pt.allPresent THEN d.horizDiff \o d.vertDiff
                             ELSE IF pt.leftPresent THEN d.horizDiff ELSE d.vertDiff,
                   avgHorizontal |-> IF pt.allPresent \/ pt.leftPresent
                                     THEN SumSeq(d.horizDiff) ELSE SumSeq(d.vertDiff),
                   avgVertical   |-> IF pt.allPresent \/ ~pt.leftPresent
                                     THEN SumSeq(d.vertDiff) ELSE SumSeq(d.horizDiff)],
                  LAMBDA s :
             Bind(Shr(s.avgVertical + s.avgHorizontal, 1), LAMBDA avgmed :
                 [PredictedDC  |-> IF q0 # 0 THEN Shr(QuoInt32(avgmed, q0) + 4, 3) ELSE 0,
                  Uncertainty  |->
                      Int16(Shr(MaxOf({s.diffs[i] : i \in 1..Len(s.diffs)})
                                    - MinOf({s.diffs[i] : i \in 1..Len(s.diffs)}), 3)),
                  Uncertainty2 |->
                      Int16(Shr(IF abs32(s.avgHorizontal - avgmed) < abs32(s.avgVertical - avgmed)
                                THEN s.avgHorizontal - avgmed ELSE s.avgVertical - avgmed, 3)),
                  NextEdgePixelsH |-> p.NextEdgePixelsH,
                  NextEdgePixelsV |-> p.NextEdgePixelsV]))))))

\* NewNeighborSummaryFromDecode.
NewNeighborSummaryFromDecode(edgePixelsH, edgePixelsV, dcDeq, numNonZeros7x7, horizPred, vertPred) ==
    [EdgePixelsH |-> Array8(LAMBDA i : Int16(edgePixelsH[i + 1] + Int16(dcDeq))),
     EdgePixelsV |-> Array8(LAMBDA i : Int16(edgePixelsV[i + 1] + Int16(dcDeq))),
     EdgeCoefsH  |-> horizPred,
     EdgeCoefsV  |-> vertPred,
     NumNonZeros |-> numNonZeros7x7]

\* advPredictOrUnpredictDC wrapping by 1 << 11 instead of (1 << 11) + 1.
advPredictOrUnpredictDC_EvenWrap(savedDC, recoverOriginal, predictedVal) ==
    Bind(IF recoverOriginal THEN savedDC + predictedVal ELSE savedDC - predictedVal,
         LAMBDA retval :
    Bind(IF retval < -Pow2(MaxExponent - 1) THEN retval + (2 * Pow2(MaxExponent - 1))
         ELSE retval, LAMBDA wrapped :
        IF wrapped > Pow2(MaxExponent - 1) THEN wrapped - (2 * Pow2(MaxExponent - 1))
        ELSE wrapped))

\* advPredictOrUnpredictDC.
advPredictOrUnpredictDC(savedDC, recoverOriginal, predictedVal) ==
    Bind(IF recoverOriginal THEN savedDC + predictedVal ELSE savedDC - predictedVal,
         LAMBDA retval :
    Bind(IF retval < -Pow2(MaxExponent - 1) THEN retval + (2 * Pow2(MaxExponent - 1)) + 1
         ELSE retval, LAMBDA wrapped :
        IF wrapped > Pow2(MaxExponent - 1) THEN wrapped - ((2 * Pow2(MaxExponent - 1)) + 1)
        ELSE wrapped))

numNonZerosToBin7x7(numNonZeros) ==
    IF numNonZeros >= 50 THEN NonZeroToBin7x7[50] ELSE NonZeroToBin7x7[numNonZeros + 1]

\* AlignedBlock.GetCountOfNonZeros7x7.
GetCountOfNonZeros7x7(block) ==
    Cardinality({i \in 0..63 : i \div 8 >= 1 /\ i % 8 >= 1 /\ block[i + 1] # 0})

\* raster[coordTR >> 3][coordTR & 7] = coef * qt.GetQTransposed(coordTR).
SetRaster(raster, qt, coordTR, coef) ==
    [raster EXCEPT ![(coordTR \div 8) + 1][(coordTR % 8) + 1] = coef * GetQTransposed(qt, coordTR)]

\* One turn of the loop of writeCoefficientsBlock over the 7x7 coefficients in zigzag
\* order, for place zig49; st is [w, raster, eobX, eobY, remaining]. The loop runs while
\* coefficients remain.
write7x7Step(st, zig49, qt, pt, colorIndex, neighbors, block) ==
    IF st.remaining = 0 \/ st.w.err # "none" THEN st
    ELSE Bind(Unzigzag49TR[zig49 + 1], LAMBDA coordTR :
         Bind(block[coordTR + 1], LAMBDA coef :
         Bind(WriteCoef(st.w, colorIndex, coef, zig49, numNonZerosToBin7x7(st.remaining),
                        BitLen(CalcCoefficientContext7x7AavgBlock(pt, neighbors, coordTR))),
              LAMBDA w1 :
             IF coef = 0 \/ w1.err # "none" THEN [st EXCEPT !.w = w1]
             ELSE [w |-> w1,
                   raster |-> SetRaster(st.raster, qt, coordTR, coef),
                   eobX |-> IF coordTR \div 8 > st.eobX THEN coordTR \div 8 ELSE st.eobX,
                   eobY |-> IF coordTR % 8 > st.eobY THEN coordTR % 8 ELSE st.eobY,
                   remaining |-> st.remaining - 1])))

\* The turns lo .. hi - 1 of that loop, one after the other.
RECURSIVE write7x7From(_, _, _, _, _, _, _, _)
write7x7From(st, lo, hi, qt, pt, colorIndex, neighbors, block) ==
    IF hi - lo = 1 THEN write7x7Step(st, lo, qt, pt, colorIndex, neighbors, block)
    ELSE Bind(write7x7From(st, lo, (lo + hi) \div 2, qt, pt, colorIndex, neighbors, block),
              LAMBDA half :
             write7x7From(half, (lo + hi) \div 2, hi, qt, pt, colorIndex, neighbors, block))

\* One turn of the loop of encodeOneEdge, for one lane; st is
\* [w, raster, numNonZerosEdge]. The loop runs while coefficients remain.
encodeOneEdgeStep(st, lane, qt, pt, colorIndex, block, pred, horizontal) ==
    IF st.numNonZerosEdge = 0 \/ st.w.err # "none" THEN st
    ELSE Bind((lane + 1) * (IF horizontal THEN 8 ELSE 1), LAMBDA coordTR :
         Bind(CalcCoefficientContext8Lak(pt, qt, coordTR, pred, horizontal), LAMBDA bestPrior :
             IF bestPrior.err # "none" THEN [st EXCEPT !.w.err = bestPrior.err]
             ELSE Bind(block[coordTR + 1], LAMBDA coef :
                      [w |-> WriteEdgeCoefficient(st.w, colorIndex, qt, coef,
                                  lane + (IF horizontal THEN 0 ELSE 7),
                                  st.numNonZerosEdge, bestPrior.val),
                       raster |-> SetRaster(st.raster, qt, coordTR, coef),
                       numNonZerosEdge |->
                           st.numNonZerosEdge - (IF coef # 0 THEN 1 ELSE 0)])))

\* The turns lo .. hi - 1 of that loop, one after the other.
RECURSIVE encodeOneEdgeFrom(_, _, _, _, _, _, _, _, _)
encodeOneEdgeFrom(st, lo, hi, qt, pt, colorIndex, block, pred, horizontal) ==
    IF hi - lo = 1 THEN encodeOneEdgeStep(st, lo, qt, pt, colorIndex, block, pred, horizontal)
    ELSE Bind(encodeOneEdgeFrom(st, lo, (lo + hi) \div 2, qt, pt, colorIndex, block, pred,
                                horizontal), LAMBDA half :
             encodeOneEdgeFrom(half, (lo + hi) \div 2, hi, qt, pt, colorIndex, block, pred,
                               horizontal))

\* LeptonEncoder.encodeOneEdge: [w, raster].
encodeOneEdge(w, raster, qt, pt, colorIndex, block, pred, horizontal, numNonZerosBin, estEob) ==
    Bind(Cardinality({lane \in 1..7 : block[(lane * (IF horizontal THEN 8 ELSE 1)) + 1] # 0}),
         LAMBDA numNonZerosEdge :
    Bind(PutGridCtx(w, numNonZerosEdge,
                 getNonZeroCountsEdge(colorIndex, horizontal, estEob, numNonZerosBin), 8),
         LAMBDA w1 :
    Bind([w |-> w1, raster |-> raster, numNonZerosEdge |-> numNonZerosEdge], LAMBDA st :
        encodeOneEdgeFrom(st, 0, 7, qt, pt, colorIndex, block, pred, horizontal))))

\* LeptonEncoder.writeCoefficientsBlock: [w, ns].
writeCoefficientsBlock(w, qt, pt, colorIndex, neighbors, block) ==
    Bind(GetCountOfNonZeros7x7(block), LAMBDA numNonZeros7x7 :
    Bind(PutGridCtx(w, numNonZeros7x7,
                 << 1, colorIndex, CalcNumNonZeros7x7ContextBin(pt, neighbors), 0, 0 >>, 64),
         LAMBDA w1 :
    Bind([w |-> w1, raster |-> ZeroRaster, eobX |-> 0, eobY |-> 0,
          remaining |-> numNonZeros7x7], LAMBDA st :
    Bind(write7x7From(st, 0, 49, qt, pt, colorIndex, neighbors, block), LAMBDA inner :
    Bind(PredictCurrentEdges(neighbors, inner.raster), LAMBDA cur :
    Bind(encodeOneEdge(inner.w, inner.raster, qt, pt, colorIndex, block, cur.h, TRUE,
                       (numNonZeros7x7 + 3) \div 7, inner.eobX), LAMBDA horiz :
    Bind(encodeOneEdge(horiz.w, horiz.raster, qt, pt, colorIndex, block, cur.v, FALSE,
                       (numNonZeros7x7 + 3) \div 7, inner.eobY), LAMBDA vert :
    Bind(PredictNextEdges(vert.raster), LAMBDA next :
    Bind(GetQTransposed(qt, 0), LAMBDA q0 :
    Bind(AdvPredictDCPix(pt, vert.raster, q0, neighbors, TRUE, TRUE), LAMBDA dcResult :
    Bind(block[1], LAMBDA actualDC :
        [w  |-> WriteDC(vert.w, colorIndex,
                        Int16(advPredictOrUnpredictDC(actualDC, FALSE, dcResult.PredictedDC)),
                        dcResult.Uncertainty, dcResult.Uncertainty2),
         ns |-> NewNeighborSummaryFromDecode(dcResult.NextEdgePixelsH, dcResult.NextEdgePixelsV,
                                             actualDC * q0, numNonZeros7x7, next.h, next.v)]
    )))))))))))

\* One turn of the loop of decodeBlock over the 7x7 coefficients, for place zig49; st is
\* [r, block, raster, eobX, eobY, remaining]. The loop runs while coefficients remain.
read7x7Step(st, zig49, qt, pt, colorIndex, neighbors) ==
    IF st.remaining <= 0 \/ st.r.err # "none" THEN st
    ELSE Bind(Unzigzag49TR[zig49 + 1], LAMBDA coordTR :
         Bind(ReadCoef(st.r, colorIndex, zig49, numNonZerosToBin7x7(st.remaining),
                       BitLen(CalcCoefficientContext7x7AavgBlock(pt, neighbors, coordTR))),
              LAMBDA c :
             IF c.val = 0 THEN [st EXCEPT !.r = c.r]
             ELSE [r |-> c.r,
                   block |-> [st.block EXCEPT ![coordTR + 1] = c.val],
                   raster |-> SetRaster(st.raster, qt, coordTR, c.val),
                   eobX |-> IF coordTR \div 8 > st.eobX THEN coordTR \div 8 ELSE st.eobX,
                   eobY |-> IF coordTR % 8 > st.eobY THEN coordTR % 8 ELSE st.eobY,
                   remaining |-> st.remaining - 1]))

\* The turns lo .. hi - 1 of that loop, one after the other.
RECURSIVE read7x7From(_, _, _, _, _, _, _)
read7x7From(st, lo, hi, qt, pt, colorIndex, neighbors) ==
    IF hi - lo = 1 THEN read7x7Step(st, lo, qt, pt, colorIndex, neighbors)
    ELSE Bind(read7x7From(st, lo, (lo + hi) \div 2, qt, pt, colorIndex, neighbors),
              LAMBDA half :
             read7x7From(half, (lo + hi) \div 2, hi, qt, pt, colorIndex, neighbors))

\* One turn of the loop of decodeOneEdge, for one lane; st is
\* [r, block, raster, numNonZerosEdge]. The loop runs while coefficients remain.
decodeOneEdgeStep(st, lane, qt, pt, colorIndex, pred, horizontal) ==
    IF st.numNonZerosEdge = 0 \/ st.r.err # "none" THEN st
    ELSE Bind((lane + 1) * (IF horizontal THEN 8 ELSE 1), LAMBDA coordTR :
         Bind(CalcCoefficientContext8Lak(pt, qt, coordTR, pred, horizontal), LAMBDA bestPrior :
             IF bestPrior.err # "none" THEN [st EXCEPT !.r.err = bestPrior.err]
             ELSE Bind(ReadEdgeCoefficient(st.r, colorIndex, qt,
                                           lane + (IF horizontal THEN 0 ELSE 7),
                                           st.numNonZerosEdge, bestPrior.val), LAMBDA c :
                      IF c.val = 0 THEN [st EXCEPT !.r = c.r]
                      ELSE [r |-> c.r,
                            block |-> [st.block EXCEPT ![coordTR + 1] = c.val],
                            raster |-> SetRaster(st.raster, qt, coordTR, c.val),
                            numNonZerosEdge |-> st.numNonZerosEdge - 1])))

\* The turns lo .. hi - 1 of that loop, one after the other.
RECURSIVE decodeOneEdgeFrom(_, _, _, _, _, _, _, _)
decodeOneEdgeFrom(st, lo, hi, qt, pt, colorIndex, pred, horizontal) ==
    IF hi - lo = 1 THEN decodeOneEdgeStep(st, lo, qt, pt, colorIndex, pred, horizontal)
    ELSE Bind(decodeOneEdgeFrom(st, lo, (lo + hi) \div 2, qt, pt, colorIndex, pred,
                                horizontal), LAMBDA half :
             decodeOneEdgeFrom(half, (lo + hi) \div 2, hi, qt, pt, colorIndex, pred,
                               horizontal))

\* LeptonDecoder.decodeOneEdge: [r, block, raster]; an edge with fewer coefficients than
\* its count is the error StreamInconsistent.
decodeOneEdge(r, block, raster, qt, pt, colorIndex, pred, horizontal, numNonZerosBin, estEob) ==
    Bind(GetGridCtx(r, getNonZeroCountsEdge(colorIndex, horizontal, estEob, numNonZerosBin), 8),
         LAMBDA n :
    Bind([r |-> n.r, block |-> block, raster |-> raster, numNonZerosEdge |-> n.val],
         LAMBDA st0 :
    Bind(decodeOneEdgeFrom(st0, 0, 7, qt, pt, colorIndex, pred, horizontal), LAMBDA st :
        IF st.r.err = "none" /\ st.numNonZerosEdge # 0
        THEN [st EXCEPT !.r.err = "StreamInconsistent"] ELSE st)))

\* LeptonDecoder.decodeBlock: [r, block, ns].
decodeBlock(r, qt, pt, colorIndex, neighbors) ==
    Bind(GetGridCtx(r, << 1, colorIndex, CalcNumNonZeros7x7ContextBin(pt, neighbors), 0, 0 >>, 64),
         LAMBDA n :
        IF n.r.err # "none" \/ n.val > 49
        THEN [r |-> IF n.r.err # "none" THEN n.r ELSE [n.r EXCEPT !.err = "StreamInconsistent"],
              block |-> emptyBlock, ns |-> emptyNeighborSummary]
        ELSE
    Bind([r |-> n.r, block |-> emptyBlock, raster |-> ZeroRaster, eobX |-> 0, eobY |-> 0,
          remaining |-> n.val], LAMBDA st :
    Bind(read7x7From(st, 0, 49, qt, pt, colorIndex, neighbors), LAMBDA inner :
        IF inner.r.err # "none" \/ inner.remaining > 0
        THEN [r |-> IF inner.r.err # "none" THEN inner.r
                    ELSE [inner.r EXCEPT !.err = "StreamInconsistent"],
              block |-> inner.block, ns |-> emptyNeighborSummary]
        ELSE
    Bind(PredictCurrentEdges(neighbors, inner.raster), LAMBDA cur :
    Bind(decodeOneEdge(inner.r, inner.block, inner.raster, qt, pt, colorIndex, cur.h, TRUE,
                       (n.val + 3) \div 7, inner.eobX), LAMBDA horiz :
    Bind(decodeOneEdge(horiz.r, horiz.block, horiz.raster, qt, pt, colorIndex, cur.v, FALSE,
                       (n.val + 3) \div 7, inner.eobY), LAMBDA vert :
        IF vert.r.err # "none"
        THEN [r |-> vert.r, block |-> vert.block, ns |-> emptyNeighborSummary]
        ELSE
    Bind(PredictNextEdges(vert.raster), LAMBDA next :
    Bind(GetQTransposed(qt, 0), LAMBDA q0 :
    Bind(AdvPredictDCPix(pt, vert.raster, q0, neighbors, TRUE, TRUE), LAMBDA dcResult :
    Bind(ReadDC(vert.r, colorIndex, dcResult.Uncertainty, dcResult.Uncertainty2), LAMBDA dcDiff :
        IF dcDiff.r.err # "none"
        THEN [r |-> dcDiff.r, block |-> vert.block, ns |-> emptyNeighborSummary]
        ELSE
    Bind(Int16(advPredictOrUnpredictDC(dcDiff.val, TRUE, dcResult.PredictedDC)), LAMBDA finalDC :
        [r     |-> dcDiff.r,
         block |-> [vert.block EXCEPT ![1] = finalDC],
         ns    |-> NewNeighborSummaryFromDecode(dcResult.NextEdgePixelsH,
                       dcResult.NextEdgePixelsV, finalDC * q0, n.val, next.h, next.v)]
    )))))))))))

\* BlockContext.GetNeighborData for block index dpos of an image blockWidth blocks wide,
\* with the cache places NewBlockContextForRow and Next give.
GetNeighborData(image, neighborSummary, pt, dpos, blockWidth) ==
    LET y     == dpos \div blockWidth
        cur   == (IF y % 2 # 0 THEN blockWidth ELSE 0) + (dpos % blockWidth)
        above == (IF y % 2 # 0 THEN 0 ELSE blockWidth) + (dpos % blockWidth)
        GetBlock(i) == IF i >= Len(image) THEN emptyBlock ELSE image[i + 1]
    IN  [Above     |-> IF pt.allPresent \/ pt.abovePresent THEN GetBlock(dpos - blockWidth)
                       ELSE emptyBlock,
         Left      |-> IF pt.allPresent \/ pt.leftPresent THEN GetBlock(dpos - 1)
                       ELSE emptyBlock,
         AboveLeft |-> IF pt.allPresent THEN GetBlock(dpos - blockWidth - 1) ELSE emptyBlock,
         NeighborContextAbove |-> IF pt.allPresent \/ pt.abovePresent
                                  THEN neighborSummary[above + 1] ELSE emptyNeighborSummary,
         NeighborContextLeft  |-> IF pt.allPresent \/ pt.leftPresent
                                  THEN neighborSummary[cur] ELSE emptyNeighborSummary]

\* The cache place BlockContext.SetNeighborSummaryHere writes for block index dpos.
NeighborSummaryHere(dpos, blockWidth) ==
    (IF (dpos \div blockWidth) % 2 # 0 THEN blockWidth ELSE 0) + (dpos % blockWidth) + 1

\* The tables processRow and decodeRow take for block index dpos: the first row of a
\* component has no row above, the first block of a row no block to its left.
TablesAt(dpos, blockWidth) ==
    IF dpos < blockWidth THEN (IF dpos % blockWidth = 0 THEN NoNeighbors ELSE LeftOnly)
    ELSE (IF dpos % blockWidth = 0 THEN TopOnly ELSE AllNeighbors)

\* The image is two blocks wide.
CoefImage == [blockWidth |-> 2, colorIndex |-> 0]

\* The quantization table of the component, in zigzag order: steps below 9, which give
\* the edge coefficients a noise threshold, and steps of 16, which give none.
CoefQTable == [i \in 1..64 |-> IF i = 1 THEN 2 ELSE IF i % 3 = 0 THEN 16 ELSE IF i % 3 = 1 THEN 1 ELSE 3]

\* A block with the given coefficients, places being in transposed order.
BlockWith(dc, c9, c10, c63, c8, c16, c1, c7) ==
    [emptyBlock EXCEPT ![1] = dc, ![10] = c9, ![11] = c10, ![64] = c63, ![9] = c8,
                       ![17] = c16, ![2] = c1, ![8] = c7]

\* The blocks an image is made of: an empty block, blocks with 7x7 and edge coefficients
\* and a DC at either end of -1024..1024, a block with a DC beyond, which a JPEG file can
\* hold since the reader adds the differences up without a limit (jpeg_read.go:461), and a
\* block with a coefficient too long for the coder.
CoefBlocks ==
    { emptyBlock,
      BlockWith(5, -3, 1, 0, 2, 0, -1, 0),
      BlockWith(-1024, 40, -2, 1, 0, 300, -9, 1),
      BlockWith(1024, 0, 0, 0, -17, 0, 0, 0),
      BlockWith(1500, 0, 0, 0, 0, 0, 0, 0),
      BlockWith(0, 2048, 0, 0, 0, 0, 0, 0) }

CoefIdle ==
    /\ cfQt = << >> /\ cfImage = << >> /\ cfStream = << >> /\ cfPending = FALSE
    /\ cfEnc = << >> /\ cfDec = << >>

\* NewLeptonEncoder and NewLeptonDecoder with the caches EncodeRowRange and DecodeRowRange
\* make: a new Model each, and two rows of empty summaries.
CoefInit ==
    /\ cfQt = NewQuantizationTables(CoefQTable)
    /\ cfImage = << >> /\ cfStream = << >> /\ cfPending = FALSE
    /\ cfEnc = [model |-> NewModel, err |-> "none", keys |-> << >>,
                ns |-> emptyNeighborSummary,
                cache |-> [i \in 1..(2 * CoefImage.blockWidth) |-> emptyNeighborSummary]]
    /\ cfDec = [model |-> NewModel, err |-> "none", keys |-> << >>,
                ns |-> emptyNeighborSummary, image |-> << >>,
                cache |-> [i \in 1..(2 * CoefImage.blockWidth) |-> emptyNeighborSummary]]

\* One turn of the loop of processRow: the encoder codes the next block of its image.
CfWriteBlock ==
    /\ ~cfPending /\ Len(cfImage) < MaxCoefBlocks
    /\ cfEnc.err = "none" /\ cfDec.err = "none"
    /\ \E block \in CoefBlocks :
       \E dpos \in {Len(cfImage)} :
       \E pt \in {TablesAt(dpos, CoefImage.blockWidth)} :
       \E res \in {writeCoefficientsBlock(
                       [model |-> cfEnc.model, events |-> << >>, err |-> "none"], cfQt, pt,
                       CoefImage.colorIndex,
                       GetNeighborData(Append(cfImage, block), cfEnc.cache, pt, dpos,
                                       CoefImage.blockWidth),
                       block)} :
          IF res.w.err # "none"
          THEN /\ cfEnc' = [cfEnc EXCEPT !.err = res.w.err]
               /\ UNCHANGED <<cfImage, cfStream, cfPending>>
          ELSE /\ cfEnc' = [model |-> res.w.model, err |-> "none",
                            keys |-> [i \in 1..Len(res.w.events) |-> res.w.events[i][1]],
                            ns |-> res.ns,
                            cache |-> [cfEnc.cache EXCEPT
                                ![NeighborSummaryHere(dpos, CoefImage.blockWidth)] = res.ns]]
               /\ cfImage' = Append(cfImage, block)
               /\ cfStream' = cfStream \o res.w.events
               /\ cfPending' = TRUE
    /\ UNCHANGED <<cfQt, cfDec>>

\* One turn of the loop of decodeRow: the decoder reads the next block from the stream.
CfReadBlock ==
    /\ cfPending
    /\ \E dpos \in {Len(cfDec.image)} :
       \E pt \in {TablesAt(dpos, CoefImage.blockWidth)} :
       \E res \in {decodeBlock(
                       [model |-> cfDec.model, stream |-> cfStream, pos |-> 0,
                        keys |-> << >>, err |-> "none", bit |-> FALSE], cfQt, pt,
                       CoefImage.colorIndex,
                       GetNeighborData(cfDec.image, cfDec.cache, pt, dpos,
                                       CoefImage.blockWidth))} :
          /\ cfDec' = [model |-> res.r.model, err |-> res.r.err, keys |-> res.r.keys,
                       ns |-> res.ns, image |-> Append(cfDec.image, res.block),
                       cache |-> [cfDec.cache EXCEPT
                           ![NeighborSummaryHere(dpos, CoefImage.blockWidth)] = res.ns]]
          /\ cfStream' = SubSeq(cfStream, res.r.pos + 1, Len(cfStream))
    /\ cfPending' = FALSE
    /\ UNCHANGED <<cfQt, cfImage, cfEnc>>

(***************************************************************************)
(* The BitReader at work on one byte string: Read, ReadAndVerifyFillBits   *)
(* and VerifyResetCode called in any order, as the scan readers call them, *)
(* until one of them returns an error.                                     *)
(***************************************************************************)
MaxReadCalls == 4

\* The restart markers RST0, RST1, ... in the order a scan holds them, n of them.
RstTrain(n) == [i \in 1..(2 * n) |-> IF i % 2 = 1 THEN 255 ELSE 208 + (((i \div 2) - 1) % 8)]

\* The byte strings read: every string of up to three bytes out of a data byte, 00, FF and
\* RST0; data bytes around restart markers; nine markers in a row followed by a data byte,
\* and the same with the ninth marker numbered 8.
ReaderInputs ==
    UNION {[1..n -> {165, 0, 255, 208}] : n \in 0..3}
    \cup { <<165, 255, 208, 90, 255, 209, 60>>,
           <<165, 255, 0, 255, 208, 255, 0, 90>>,
           RstTrain(9) \o <<165>>,
           RstTrain(8) \o <<255, 216, 165>> }

ReadSizes == {1, 8, 11}

NoCall == [op |-> "none", n |-> 0, val |-> 0, err |-> "none", pre |-> NewBitReader(0),
           seg |-> 0, have |-> 0, k |-> 0]

BitReaderIdle ==
    /\ rdData = << >> /\ rdR = << >> /\ rdPad = 0 /\ rdSeg = 0 /\ rdHave = 0 /\ rdK = 0
    /\ rdCalls = 0 /\ rdLast = << >> /\ rdErr = "idle" /\ rdEof = FALSE

\* NewBitReader on the bytes of a scan.
BitReaderInit ==
    /\ rdData \in ReaderInputs
    /\ rdR = NewBitReader(0) /\ rdPad = -1 /\ rdSeg = 0 /\ rdHave = 0 /\ rdK = 0
    /\ rdCalls = 0 /\ rdLast = NoCall /\ rdErr = "none" /\ rdEof = FALSE

\* bitReader.Read(n).
RdRead ==
    /\ rdErr = "none" /\ rdCalls < MaxReadCalls
    /\ \E n \in ReadSizes :
       \E res \in {Read(rdR, n, rdData)} :
          /\ rdR' = res.r
          /\ rdErr' = res.err
          /\ rdHave' = IF res.err = "none" THEN rdHave + n ELSE rdHave
          /\ rdLast' = [op |-> "Read", n |-> n, val |-> res.val, err |-> res.err, pre |-> rdR,
                        seg |-> rdSeg, have |-> rdHave, k |-> rdK]
          /\ rdEof' = (rdEof \/ res.r.eof)
    /\ rdCalls' = rdCalls + 1
    /\ UNCHANGED <<rdData, rdPad, rdSeg, rdK>>

\* bitReader.ReadAndVerifyFillBits(&padBit, &padBitSet): the rest of the current byte.
RdFillBits ==
    /\ rdErr = "none" /\ rdCalls < MaxReadCalls
    /\ \E res \in {ReadAndVerifyFillBits(rdR, rdPad, rdData)} :
          /\ rdR' = res.r
          /\ rdPad' = res.padBit
          /\ rdErr' = res.err
          /\ rdHave' = IF res.err = "none" THEN rdHave + (rdR.bitsLeft - res.r.bitsLeft)
                       ELSE rdHave
          /\ rdLast' = [op |-> "ReadAndVerifyFillBits", n |-> rdR.bitsLeft, val |-> 0,
                        err |-> res.err, pre |-> rdR, seg |-> rdSeg, have |-> rdHave,
                        k |-> rdK]
          /\ rdEof' = (rdEof \/ res.r.eof)
    /\ rdCalls' = rdCalls + 1
    /\ UNCHANGED <<rdData, rdSeg, rdK>>

\* bitReader.VerifyResetCode(): after it a new entropy segment starts.
RdVerifyResetCode ==
    /\ rdErr = "none"
    /\ \E res \in {VerifyResetCode(rdR, rdData)} :
          /\ rdR' = res.r
          /\ rdErr' = res.err
          /\ rdSeg' = IF res.err = "none" THEN res.r.pos ELSE rdSeg
          /\ rdHave' = IF res.err = "none" THEN 0 ELSE rdHave
          /\ rdK' = IF res.err = "none" THEN rdK + 1 ELSE rdK
          /\ rdLast' = [op |-> "VerifyResetCode", n |-> 0, val |-> 0, err |-> res.err,
                        pre |-> rdR, seg |-> rdSeg, have |-> rdHave, k |-> rdK]
          /\ rdEof' = (rdEof \/ res.r.eof)
    /\ UNCHANGED <<rdData, rdPad, rdCalls>>

(***************************************************************************)
(* A Branch in use by a Model: made by NewBranch and then updated by       *)
(* RecordAndUpdateBit only, any number of times.                           *)
(***************************************************************************)
BranchRunIdle == bnCounts = NewBranch /\ bnPrev = NewBranch /\ bnBit = FALSE

BranchRunInit == bnCounts = NewBranch /\ bnPrev = NewBranch /\ bnBit = FALSE

\* put and get: branch.RecordAndUpdateBit(bit) on the bit coded.
BranchRunUpdate ==
    \E bit \in BOOLEAN :
        /\ bnPrev' = bnCounts
        /\ bnBit' = bit
        /\ bnCounts' = RecordAndUpdateBit(bnCounts, bit)

(***************************************************************************)
(* The DC step of writeCoefficientsBlock and of decodeBlock on one block:  *)
(* both sides hold the same predicted DC, the encoder codes the residual   *)
(* of the actual DC, the decoder recovers the DC from the residual.        *)
(***************************************************************************)
\* The values a DC and its prediction are taken from: either one runs over the whole of
\* -(1 << 10) .. (1 << 10) while the other is taken near the ends, the middle and zero.
DcRange == (-Pow2(MaxExponent - 1)) .. Pow2(MaxExponent - 1)

DcSamples ==
    {-Pow2(MaxExponent - 1), 1 - Pow2(MaxExponent - 1), -Pow2(MaxExponent - 2), -1, 0, 1, 2,
     Pow2(MaxExponent - 2), Pow2(MaxExponent - 1) - 1, Pow2(MaxExponent - 1)}

DcPredictIdle ==
    dcActual = 0 /\ dcPredicted = 0 /\ dcResidual = 0 /\ dcFinal = 0 /\ dcPc = "idle"

DcPredictInit ==
    /\ \/ dcActual \in DcRange /\ dcPredicted \in DcSamples
       \/ dcActual \in DcSamples /\ dcPredicted \in DcRange
    /\ dcResidual = 0 /\ dcFinal = 0 /\ dcPc = "block"

\* writeCoefficientsBlock: avgPredictedDC, handed to WriteDC as an int16.
DcWrite ==
    /\ dcPc = "block"
    /\ dcResidual' = Int16(advPredictOrUnpredictDC(dcActual, FALSE, dcPredicted))
    /\ dcPc' = "written"
    /\ UNCHANGED <<dcActual, dcPredicted, dcFinal>>

\* decodeBlock: finalDC from the dcDiff read, set in the block as an int16.
DcRead ==
    /\ dcPc = "written"
    /\ dcFinal' = Int16(advPredictOrUnpredictDC(dcResidual, TRUE, dcPredicted))
    /\ dcPc' = "read"
    /\ UNCHANGED <<dcActual, dcPredicted, dcResidual>>

(***************************************************************************)
(* One coefficient through the coder: WriteDC, WriteCoef or                *)
(* WriteEdgeCoefficient on the encoder's Model, then ReadDC, ReadCoef or   *)
(* ReadEdgeCoefficient with the same context on the decoder's Model, the   *)
(* two Models being equal before.                                          *)
(***************************************************************************)
\* The coefficients coded at the place coded fully: all of -2050 .. 2050.
CodedCoefs == -2050 .. 2050

\* The coefficients coded at the other places: those around each bit length and the ends
\* of int16.
CodedCoefsSample ==
    {0, -700, 700, 100, -32768, 32767}
    \cup UNION {{Pow2(k) - 1, Pow2(k), Pow2(k) + 1, 1 - Pow2(k), -Pow2(k), -Pow2(k) - 1} :
                   k \in 1..12}

\* The edge offsets used: the first one of each noise threshold of the table.
CodedOffsets(qt) ==
    {o \in 0..13 : \A p \in 0..(o - 1) : qt.MinNoiseThreshold[p] # qt.MinNoiseThreshold[o]}

\* Places and contexts: a DC with its two uncertainties, a 7x7 coefficient with the bit
\* length of its prior, an edge coefficient with its prior.
CodedContexts(qt) ==
    {[kind |-> "dc", at |-> 0, prior |-> p, prior2 |-> -3, warm |-> w] :
        p \in {0, 5000}, w \in {0, 700}}
    \cup {[kind |-> "coef", at |-> 12, prior |-> 4, prior2 |-> 0, warm |-> w] : w \in {0, 700}}
    \cup {[kind |-> "edge", at |-> o, prior |-> p, prior2 |-> 0, warm |-> w] :
            o \in CodedOffsets(qt), p \in {0, -300}, w \in {0, -700}}

\* The place coded fully: on new Models, the edge place of the largest noise threshold
\* with no prior.
CodedFully(qt, ctx) ==
    /\ ctx.warm = 0 /\ ctx.kind = "edge" /\ ctx.prior = 0
    /\ \A o \in 0..13 : qt.MinNoiseThreshold[o] <= qt.MinNoiseThreshold[ctx.at]

\* The call of the writer for the place.
WriteCoded(w, qt, ctx, coef) ==
    IF ctx.kind = "dc" THEN WriteDC(w, 0, coef, ctx.prior, ctx.prior2)
    ELSE IF ctx.kind = "coef" THEN WriteCoef(w, 0, coef, ctx.at, 3, ctx.prior)
    ELSE WriteEdgeCoefficient(w, 0, qt, coef, ctx.at, 2, ctx.prior)

\* The call of the reader for the place.
ReadCoded(r, qt, ctx) ==
    IF ctx.kind = "dc" THEN ReadDC(r, 0, ctx.prior, ctx.prior2)
    ELSE IF ctx.kind = "coef" THEN ReadCoef(r, 0, ctx.at, 3, ctx.prior)
    ELSE ReadEdgeCoefficient(r, 0, qt, ctx.at, 2, ctx.prior)

\* The Model both sides start with: a new one, or one that coded `warm` at the place.
WarmModel(qt, ctx) ==
    IF ctx.warm = 0 THEN NewModel
    ELSE WriteCoded([model |-> NewModel, events |-> << >>, err |-> "none"], qt, ctx,
                    ctx.warm).model

CoefCodeIdle ==
    /\ ccQt = << >> /\ ccCtx = << >> /\ ccCoef = 0 /\ ccEnc = << >> /\ ccDec = << >>
    /\ ccPc = "idle"

CoefCodeInit ==
    /\ ccQt = NewQuantizationTables(CoefQTable)
    /\ ccCtx \in CodedContexts(ccQt)
    /\ ccCoef \in (IF CodedFully(ccQt, ccCtx) THEN CodedCoefs ELSE CodedCoefsSample)
    /\ ccEnc = [model |-> WarmModel(ccQt, ccCtx), events |-> << >>, err |-> "none"]
    /\ ccDec = [model |-> WarmModel(ccQt, ccCtx), stream |-> << >>, pos |-> 0, keys |-> << >>,
                err |-> "none", bit |-> FALSE, val |-> 0]
    /\ ccPc = "coef"

\* The encoder codes the coefficient.
CcWrite ==
    /\ ccPc = "coef"
    /\ \E w \in {WriteCoded(ccEnc, ccQt, ccCtx, ccCoef)} :
          /\ ccEnc' = w
          /\ ccPc' = IF w.err = "none" THEN "written" ELSE "refused"
    /\ UNCHANGED <<ccQt, ccCtx, ccCoef, ccDec>>

\* The decoder reads what the encoder coded.
CcRead ==
    /\ ccPc = "written"
    /\ \E res \in {ReadCoded([model |-> ccDec.model, stream |-> ccEnc.events, pos |-> 0,
                              keys |-> << >>, err |-> "none", bit |-> FALSE], ccQt, ccCtx)} :
          ccDec' = [model |-> res.r.model, stream |-> res.r.stream, pos |-> res.r.pos,
                    keys |-> res.r.keys, err |-> res.r.err, bit |-> res.r.bit,
                    val |-> res.val]
    /\ ccPc' = "read"
    /\ UNCHANGED <<ccQt, ccCtx, ccCoef, ccEnc>>

(***************************************************************************)
(* NewQuantizationTables on a table, and WriteEdgeCoefficient at an edge   *)
(* position with the noise threshold it stored there.                      *)
(***************************************************************************)
\* The quantizer values put at the edge position.
QuantValues == (1 .. 24) \cup {64, 127, 128, 255, 256, 1019, 1020, 1021, 65535}

\* The quantizer values put everywhere else.
QuantBackground == {1, 9}

\* The transposed coordinate of edge position i, as encodeOneEdge pairs them: lane + 1
\* columns to the right for i = lane, lane + 1 rows down for i = lane + 7.
EdgeCoordTR(i) == IF i < 7 THEN (i + 1) * 8 ELSE i - 6

\* The edge coefficients coded, of 0, 1, 2, 3, 4, 7 and 11 bits.
QuantCoefs == {0, 1, -2, 7, -8, 100, -1024, 2047}

QuantIdle ==
    /\ qnTable = << >> /\ qnPos = 0 /\ qnQt = << >> /\ qnCoef = 0 /\ qnEnc = << >>
    /\ qnPc = "idle"

QuantInit ==
    /\ qnPos \in 0..13
    /\ \E q \in QuantValues, bg \in QuantBackground :
          qnTable = [z \in 1..64 |->
                        IF ZigzagToTransposed[z] = EdgeCoordTR(qnPos) THEN q ELSE bg]
    /\ qnQt = << >> /\ qnCoef = 0 /\ qnEnc = << >>
    /\ qnPc = "table"

\* NewQuantizationTables(table).
QnNewQuantizationTables ==
    /\ qnPc = "table"
    /\ qnQt' = NewQuantizationTables(qnTable)
    /\ qnPc' = "tables"
    /\ UNCHANGED <<qnTable, qnPos, qnCoef, qnEnc>>

\* WriteEdgeCoefficient of a coefficient at the edge position, on a new Model.
QnWriteEdgeCoefficient ==
    /\ qnPc = "tables"
    /\ \E coef \in QuantCoefs, bestPrior \in {40} :
          /\ qnCoef' = coef
          /\ qnEnc' = WriteEdgeCoefficient([model |-> NewModel, events |-> << >>,
                                            err |-> "none"], 0, qnQt, coef, qnPos, 1,
                                           bestPrior)
    /\ qnPc' = "written"
    /\ UNCHANGED <<qnTable, qnPos, qnQt>>

(***************************************************************************)
(* The row loop of LeptonEncoder.EncodeRowRange and                        *)
(* LeptonDecoder.DecodeRowRange: getRowSpecFromIndex, the tables chosen by *)
(* isTopRow, and the two-row neighbor summary cache of BlockContext.  A    *)
(* NeighborSummary in the cache is the <<x, y>> of the block that stored   *)
(* it; the cache is made of zero values.                                   *)
(***************************************************************************)
\* The most MCU rows of an image.
MaxMcuRows == 3

\* The widths of a component, in blocks.
RowWidths == {2}

ZeroSummary == << -1, -1 >>

\* The loop that scans the components from the last one down for placeWithinScan.
RECURSIVE RowSpecScan(_, _, _, _, _, _)
RowSpecScan(i, placeWithinScan, mcuRow, componentMultiple, maxCodedHeights, retval) ==
    IF placeWithinScan < componentMultiple[i + 1]
    THEN Bind((mcuRow * componentMultiple[i + 1]) + placeWithinScan, LAMBDA currY :
             [retval EXCEPT
                 !.component = i,
                 !.currY = currY,
                 !.lastRowToCompleteMcu =
                     (placeWithinScan + 1 = componentMultiple[i + 1]) /\ i = 0,
                 !.skip = currY >= maxCodedHeights[i + 1],
                 !.done = /\ currY >= maxCodedHeights[i + 1]
                          /\ \A j \in 0..(Len(componentMultiple) - 2) :
                                 mcuRow * componentMultiple[j + 1] >= maxCodedHeights[j + 1],
                 !.lumaY = IF i = 0 THEN currY ELSE retval.lumaY])
    ELSE IF i = 0 THEN [retval EXCEPT !.skip = TRUE, !.done = TRUE]
    ELSE RowSpecScan(i - 1, placeWithinScan - componentMultiple[i + 1], mcuRow,
                     componentMultiple, maxCodedHeights, retval)

\* getRowSpecFromIndex(decodeIndex, imageData, mcuv, maxCodedHeights), heights being the
\* images' GetOriginalHeight().
getRowSpecFromIndex(decodeIndex, heights, mcuv, maxCodedHeights) ==
    Bind([i \in 1..Len(heights) |-> heights[i] \div mcuv], LAMBDA componentMultiple :
    Bind(SumSeq(componentMultiple), LAMBDA mcuMultiple :
    Bind(decodeIndex \div mcuMultiple, LAMBDA mcuRow :
        RowSpecScan(Len(heights) - 1, decodeIndex - (mcuRow * mcuMultiple), mcuRow,
                    componentMultiple, maxCodedHeights,
                    [skip |-> FALSE, done |-> FALSE, mcuRowIndex |-> mcuRow,
                     component |-> Len(heights), lumaY |-> mcuRow * componentMultiple[1],
                     currY |-> 0, lastRowToCompleteMcu |-> FALSE]))))

\* The loop of setBlockCountDpos that rounds the scan lines up to the MCU's.
RECURSIVE RoundUpScanLines(_, _, _)
RoundUpScanLines(verticalScanLines, ratio, bcv) ==
    IF verticalScanLines % ratio # 0 /\ verticalScanLines + 1 <= bcv
    THEN RoundUpScanLines(verticalScanLines + 1, ratio, bcv)
    ELSE verticalScanLines

\* TruncateComponents.setBlockCountDpos: [truncBcv, truncBc] of the component.
setBlockCountDpos(bch, bcv, mcuCountVertical, truncBc) ==
    Bind(IF truncBc % bch # 0 THEN (truncBc \div bch) + 1 ELSE truncBc \div bch, LAMBDA lines :
        [truncBcv |-> RoundUpScanLines(IF lines > bcv THEN bcv ELSE lines,
                                       bcv \div mcuCountVertical, bcv),
         truncBc |-> truncBc])

\* NewBlockContextForRow keeping the same halves of the cache for every row.
NewBlockContextForRow_SameHalves(y, blockWidth) ==
    [blockWidth |-> blockWidth,
     curBlockIndex |-> blockWidth * y,
     curNeighborSummaryIndex |-> 0,
     aboveNeighborSummaryIndex |-> blockWidth]

\* NewBlockContextForRow(y, image): the row's halves of the cache.
NewBlockContextForRow(y, blockWidth) ==
    [blockWidth |-> blockWidth,
     curBlockIndex |-> blockWidth * y,
     curNeighborSummaryIndex |-> IF y % 2 # 0 THEN blockWidth ELSE 0,
     aboveNeighborSummaryIndex |-> IF y % 2 # 0 THEN 0 ELSE blockWidth]

\* BlockContext.Next.
BlockContextNext(ctx) ==
    [ctx EXCEPT !.curBlockIndex = @ + 1, !.curNeighborSummaryIndex = @ + 1,
                !.aboveNeighborSummaryIndex = @ + 1]

\* The summaries BlockContext.GetNeighborData hands out: [above, left], emptyNeighborSummary
\* for a neighbor the tables do not have.
NeighborContexts(ctx, neighborSummary, pt) ==
    [above |-> IF pt.allPresent \/ pt.abovePresent
               THEN neighborSummary[ctx.aboveNeighborSummaryIndex + 1] ELSE ZeroSummary,
     left  |-> IF pt.allPresent \/ pt.leftPresent
               THEN neighborSummary[ctx.curNeighborSummaryIndex] ELSE ZeroSummary]

\* The loop of processRow and decodeRow from block blockX on: [cache, blocks].  The decoder
\* leaves the row when the block index reaches componentSizeInBlocks; the encoder has no
\* such test (limit -1).
RECURSIVE RowBlocks(_, _, _, _, _, _, _)
RowBlocks(st, blockX, ctx, currY, leftModel, middleModel, limit) ==
    IF blockX >= ctx.blockWidth THEN st
    ELSE Bind(IF blockX > 0 THEN middleModel ELSE leftModel, LAMBDA pt :
         Bind(NeighborContexts(ctx, st.cache, pt), LAMBDA neighbors :
         Bind([cache |-> [st.cache EXCEPT ![ctx.curNeighborSummaryIndex + 1] =
                                              << blockX, currY >>],
               blocks |-> Append(st.blocks, [x |-> blockX, pt |-> pt,
                                             above |-> neighbors.above,
                                             left |-> neighbors.left])], LAMBDA next :
             IF limit >= 0 /\ ctx.curBlockIndex + 1 >= limit THEN next
             ELSE RowBlocks(next, blockX + 1, BlockContextNext(ctx), currY, leftModel,
                            middleModel, limit))))

\* The geometries: one to three components of one width, 1 or 2 block rows of component 0
\* and 1 of every other component to the MCU row.
RowGeometries ==
    {[mcuv |-> m, width |-> w, ratio |-> [c \in 1..n |-> IF c = 1 THEN r ELSE 1]] :
        m \in 1..MaxMcuRows, w \in RowWidths, r \in {1, 2}, n \in 1..3}

Bcv(geom) == [c \in 1..Len(geom.ratio) |-> geom.mcuv * geom.ratio[c]]

\* MaxDpos of a Lepton header for the geometry: any block of each component, and one
\* beyond its last.
MaxDposOf(geom) ==
    [1..Len(geom.ratio) -> 0..(geom.width * geom.mcuv * 2)] \cap
    {d \in [1..Len(geom.ratio) -> 0..(geom.width * geom.mcuv * 2)] :
        \A c \in 1..Len(geom.ratio) : d[c] <= geom.width * Bcv(geom)[c]}

NoRowSpec == [skip |-> FALSE, done |-> FALSE, mcuRowIndex |-> 0, component |-> 0,
              lumaY |-> 0, currY |-> 0, lastRowToCompleteMcu |-> FALSE]
NoRow == [component |-> -1, currY |-> -1, first |-> FALSE, blocks |-> << >>]

RowsIdle ==
    /\ rwWho = "idle" /\ rwGeom = << >> /\ rwMaxCoded = << >> /\ rwSizes = << >>
    /\ rwMinY = 0 /\ rwMaxY = 0 /\ rwIndex = 0 /\ rwIsTopRow = << >> /\ rwCache = << >>
    /\ rwRows = << >> /\ rwSpec = NoRowSpec /\ rwLast = NoRow /\ rwPc = "idle"

\* The state both loops start in.
RowsStart ==
    /\ rwIndex = 0
    /\ rwIsTopRow = [c \in 1..Len(rwGeom.ratio) |-> TRUE]
    /\ rwCache = [c \in 1..Len(rwGeom.ratio) |-> [s \in 1..(2 * rwGeom.width) |-> ZeroSummary]]
    /\ rwRows = << >> /\ rwSpec = NoRowSpec /\ rwLast = NoRow /\ rwPc = "loop"

\* EncodeRowRange as Encode calls it: every luma row, the coded heights being the images'.
RowsInitEncode ==
    /\ rwWho = "encode"
    /\ rwGeom \in RowGeometries
    /\ rwMaxCoded = Bcv(rwGeom)
    /\ rwSizes = [c \in 1..Len(rwGeom.ratio) |-> rwGeom.width * Bcv(rwGeom)[c]]
    /\ rwMinY = 0 /\ rwMaxY = Bcv(rwGeom)[1]
    /\ RowsStart

\* DecodeRowRange of a file without early EOF, for the luma rows of a thread handoff.
RowsInitDecode ==
    /\ rwWho = "decode"
    /\ rwGeom \in RowGeometries
    /\ rwMaxCoded = Bcv(rwGeom)
    /\ rwSizes = [c \in 1..Len(rwGeom.ratio) |-> rwGeom.width * Bcv(rwGeom)[c]]
    /\ rwMinY \in 0..(Bcv(rwGeom)[1] - 1)
    /\ rwMaxY \in (rwMinY + 1)..Bcv(rwGeom)[1]
    /\ RowsStart

\* DecodeRowRange of a file with early EOF: SetTruncationBounds on the header's MaxDpos.
RowsInitDecodeEarlyEof ==
    /\ rwWho = "decode"
    /\ rwGeom \in RowGeometries
    /\ \E maxDPos \in MaxDposOf(rwGeom) :
          LET tc == [c \in 1..Len(rwGeom.ratio) |->
                        setBlockCountDpos(rwGeom.width, Bcv(rwGeom)[c], rwGeom.mcuv,
                                          maxDPos[c] + 1)]
          IN  /\ rwMaxCoded = [c \in 1..Len(rwGeom.ratio) |-> tc[c].truncBcv]
              /\ rwSizes = [c \in 1..Len(rwGeom.ratio) |-> tc[c].truncBc]
    /\ rwMinY = 0 /\ rwMaxY = Bcv(rwGeom)[1]
    /\ RowsStart

RowsInit == RowsInitEncode \/ RowsInitDecode \/ RowsInitDecodeEarlyEof

\* One turn of the loop of EncodeRowRange (limit -1) or DecodeRowRange.
RowRangeTurn(limitOf(_)) ==
    \E rowSpec \in {getRowSpecFromIndex(rwIndex, Bcv(rwGeom), rwGeom.mcuv, rwMaxCoded)} :
        /\ rwSpec' = rowSpec
        /\ IF rowSpec.done
           THEN rwPc' = "done" /\ UNCHANGED <<rwIndex, rwIsTopRow, rwCache, rwRows, rwLast>>
           ELSE IF rowSpec.skip \/ rowSpec.lumaY < rwMinY
           THEN /\ rwIndex' = rwIndex + 1
                /\ UNCHANGED <<rwIsTopRow, rwCache, rwRows, rwLast, rwPc>>
           ELSE IF rowSpec.lumaY >= rwMaxY
           THEN rwPc' = "break" /\ UNCHANGED <<rwIndex, rwIsTopRow, rwCache, rwRows, rwLast>>
           ELSE \E cmp \in {rowSpec.component + 1} :
                \E row \in {RowBlocks([cache |-> rwCache[cmp], blocks |-> << >>], 0,
                                      NewBlockContextForRow(rowSpec.currY, rwGeom.width),
                                      rowSpec.currY,
                                      IF rwIsTopRow[cmp] THEN NoNeighbors ELSE TopOnly,
                                      IF rwIsTopRow[cmp] THEN LeftOnly ELSE AllNeighbors,
                                      limitOf(cmp))} :
                    /\ rwIsTopRow' = [rwIsTopRow EXCEPT ![cmp] = FALSE]
                    /\ rwCache' = [rwCache EXCEPT ![cmp] = row.cache]
                    /\ rwRows' = Append(rwRows, << rowSpec.component, rowSpec.currY >>)
                    /\ rwLast' = [component |-> rowSpec.component, currY |-> rowSpec.currY,
                                  first |-> rwIsTopRow[cmp], blocks |-> row.blocks]
                    /\ rwIndex' = rwIndex + 1
                    /\ UNCHANGED rwPc
        /\ UNCHANGED <<rwWho, rwGeom, rwMaxCoded, rwSizes, rwMinY, rwMaxY>>

\* LeptonEncoder.EncodeRowRange, one turn of its loop with processRow.
EncodeRowRangeTurn ==
    /\ rwWho = "encode" /\ rwPc = "loop"
    /\ RowRangeTurn(LAMBDA cmp : -1)

\* LeptonDecoder.DecodeRowRange, one turn of its loop with decodeRow.
DecodeRowRangeTurn ==
    /\ rwWho = "decode" /\ rwPc = "loop"
    /\ RowRangeTurn(LAMBDA cmp : rwSizes[cmp])

(***************************************************************************)
(* JpegWriter.WriteJpeg on a header that marks early EOF: maxScanBytes of  *)
(* writeBaselineJpeg and what the scan writer emits under it.              *)
(***************************************************************************)
\* The JPEG files whose header and blocks the Lepton headers carry.
CapFiles ==
    {[PlainFile EXCEPT !.blocks = b, !.dri = ri, !.first = f] :
        b \in 1..MaxBlocks, ri \in 0..2, f \in {"zero", "long", "stuffed"}}

\* The bytes after the scan a header carries: none, zeros, an EOI.
CapGarbage == {<<>>, <<0, 0>>, EOI}

\* OriginalFileSize of the headers, counted from the length of prefix, SOI, raw header and
\* garbage.
CapSizes == -3 .. 9

\* maxScanBytes as writeBaselineJpeg computes it.
maxScanBytes(h) ==
    Bind(IF h.EarlyEofEncountered
         THEN h.OriginalFileSize - Len(h.PrefixGarbage) - 2 - h.RawJpegHeaderReadIndex
                  - (Len(h.RawJpegHeader) - h.RawJpegHeaderReadIndex)
                  - (IF AllZeros(h.GarbageData) THEN 0 ELSE Len(h.GarbageData))
         ELSE -1, LAMBDA limit :
        IF limit < 0 /\ Len(h.ThreadHandoffs) = 1 /\ h.ThreadHandoffs[1].SegmentSize > 0
        THEN h.ThreadHandoffs[1].SegmentSize ELSE limit)

\* An output that takes every byte written to it.
AnyOutput == NewLimitedWriter(1000000)

ScanCapIdle ==
    /\ capHeader = << >> /\ capImages = << >> /\ capLimit = 0 /\ capScan = << >>
    /\ capOut = << >> /\ capPc = "idle"

\* The header of a Lepton file with the EEE section, with the raw JPEG header and the
\* blocks of a JPEG file, and any OriginalFileSize, garbage and SegmentSize.
ScanCapInit ==
    /\ \E d \in CapFiles :
       \E r \in {ReadJpegFile(JpegBytes(d))} :
       \E garbage \in CapGarbage, prefix \in {<<>>, <<0>>}, size \in CapSizes,
          segmentSize \in {0, 2} :
          /\ r.err = "none"
          /\ capHeader =
                [NewLeptonHeader EXCEPT
                    !.JpegType = "Sequential", !.ThreadCount = 1, !.hasJpegHeader = TRUE,
                    !.JpegHeader = r.Header,
                    !.RawJpegHeader = SubSeq(r.RawHeader, 3, Len(r.RawHeader)),
                    !.RawJpegHeaderReadIndex = Len(r.RawHeader) - 2,
                    !.ThreadHandoffs = << [LumaYStart |-> 0, SegmentSize |-> segmentSize,
                                           LastDC |-> [j \in 0..3 |-> 0]] >>,
                    !.PadBit = r.PadBit, !.GarbageData = garbage, !.PrefixGarbage = prefix,
                    !.EarlyEofEncountered = TRUE,
                    !.OriginalFileSize =
                        Len(prefix) + Len(r.RawHeader) + Len(garbage) + size]
          /\ capImages = r.ImageData
    /\ capLimit = 0 /\ capScan = << >> /\ capOut = << >>
    /\ capPc = "header"

\* WriteJpeg into the output DecodeLepton gives it, and the bytes its scan writer emits.
CapWriteJpeg ==
    /\ capPc = "header"
    /\ capLimit' = maxScanBytes(capHeader)
    /\ capScan' = writeScanDataNonInterleaved(capHeader, capImages, maxScanBytes(capHeader),
                                             AnyOutput).out.out
    /\ capOut' = WriteJpeg(capHeader, capImages,
                           NewLimitedWriter(capHeader.OriginalFileSize)).out.out
    /\ capPc' = "written"
    /\ UNCHANGED <<capHeader, capImages>>

(***************************************************************************)
(* JpegWriter.writeScanDataPartitionedNonInterleaved: the scan of a file   *)
(* of several thread handoffs, each partition encoded into its own buffer  *)
(* by encodeScanDposRange.                                                 *)
(***************************************************************************)
\* The most block rows of an image written in partitions.
MaxPartRows == 3

\* BitWriter.ResetFromOverhang(overhangByte, numBits).
ResetFromOverhang(overhangByte, numBits) ==
    [dataBuffer |-> <<>>, fillRegister |-> U64Shl(U64(overhangByte), 56),
     currentBit |-> 64 - numBits]

\* What encodeScanDposRange does once blockCount has reached the restart interval.
partitionRestart(st, h, rc) ==
    Bind(Pad(st.bw, WriterPadBit(h)), LAMBDA padded :
        [st EXCEPT
            !.bw = IF Len(rc.RestartCounts) = 0 \/ ~rc.RestartCountsSet
                      \/ st.restartMarkerIdx < rc.RestartCounts[1]
                   THEN WriteByteUnescaped(WriteByteUnescaped(padded, 255),
                                           MarkerRST0 + (st.restartMarkerIdx % 8))
                   ELSE padded,
            !.restartMarkerIdx = @ + 1, !.lastDC = 0, !.blockCount = 0])

\* The block loop of encodeScanDposRange from dpos on.
RECURSIVE encodeScanDposRangeFrom(_, _, _, _, _, _, _)
encodeScanDposRangeFrom(st, h, rc, images, cmp, dpos, endDpos) ==
    LET ci == h.JpegHeader.CmpInfo[cmp]
    IN  IF st.err # "none" \/ dpos >= endDpos THEN st
        ELSE IF dpos % ci.Bch >= ci.Nch \/ dpos \div ci.Bch >= ci.Ncv
        THEN encodeScanDposRangeFrom(st, h, rc, images, cmp, dpos + 1, endDpos)
        ELSE Bind(writeBlock(st, h.JpegHeader,
                             IF dpos < Len(images) THEN images[dpos + 1] ELSE ZeroBlock, cmp),
                  LAMBDA s1 :
                 IF s1.err # "none" THEN s1
                 ELSE IF h.JpegHeader.RestartInterval > 0
                 THEN Bind(IF s1.blockCount + 1 >= h.JpegHeader.RestartInterval
                           THEN partitionRestart(s1, h, rc)
                           ELSE [s1 EXCEPT !.blockCount = @ + 1], LAMBDA s2 :
                          encodeScanDposRangeFrom(s2, h, rc, images, cmp, dpos + 1, endDpos))
                 ELSE encodeScanDposRangeFrom(s1, h, rc, images, cmp, dpos + 1, endDpos))

\* encodeScanDposRange with the BitWriter and lastDC as the partition's handoff left them:
\* [err, buf, bw, lastDC], bw being the writer before DetachBuffer empties it.
encodeScanDposRange(h, rc, images, cmp, startDpos, endDpos, padAtEnd, bw, lastDC) ==
    Bind(encodeScanDposRangeFrom(
             [err |-> "none", bw |-> bw, lastDC |-> lastDC,
              blockCount |-> IF h.JpegHeader.RestartInterval > 0
                             THEN startDpos % h.JpegHeader.RestartInterval ELSE 0,
              restartMarkerIdx |-> IF h.JpegHeader.RestartInterval > 0
                                   THEN startDpos \div h.JpegHeader.RestartInterval ELSE 0],
             h, rc, images, cmp, startDpos, endDpos), LAMBDA st :
        IF st.err # "none" THEN [err |-> st.err, buf |-> <<>>, bw |-> st.bw, lastDC |-> st.lastDC]
        ELSE Bind(flushWholeBytes(IF padAtEnd THEN Pad(st.bw, WriterPadBit(h)) ELSE st.bw),
                  LAMBDA w : [err |-> "none", buf |-> w.dataBuffer, bw |-> w,
                              lastDC |-> st.lastDC]))

\* The partition of handoff idx as writeScanDataPartitionedNonInterleaved encodes it.
encodePartition(h, rc, images, idx) ==
    LET cmp     == h.JpegHeader.ScanComponentOrder[1]
        ci      == h.JpegHeader.CmpInfo[cmp]
        handoff == h.ThreadHandoffs[idx]
    IN  encodeScanDposRange(h, rc, images, cmp, handoff.LumaYStart * ci.Bch,
            IF handoff.LumaYEnd * ci.Bch > ci.Bc THEN ci.Bc ELSE handoff.LumaYEnd * ci.Bch,
            idx = Len(h.ThreadHandoffs),
            ResetFromOverhang(handoff.OverhangByte, handoff.NumOverhangBits),
            IF cmp < h.JpegHeader.Cmpc THEN handoff.LastDC[cmp] ELSE 0)

\* The loop of writeScanDataPartitionedNonInterleaved from handoff idx on.
RECURSIVE writePartitionsFrom(_, _, _, _, _)
writePartitionsFrom(res, h, rc, images, idx) ==
    IF idx > Len(h.ThreadHandoffs) THEN res
    ELSE Bind(encodePartition(h, rc, images, idx), LAMBDA part :
             IF part.err # "none" THEN [err |-> part.err, out |-> res.out, lastSegmentSlack |-> 0]
             ELSE writePartitionsFrom(
                      [err |-> "none",
                       out |-> limitedWrite(res.out,
                                   IF h.ThreadHandoffs[idx].SegmentSize < Len(part.buf)
                                   THEN SubSeq(part.buf, 1, h.ThreadHandoffs[idx].SegmentSize)
                                   ELSE part.buf),
                       lastSegmentSlack |-> h.ThreadHandoffs[idx].SegmentSize - Len(part.buf)],
                      h, rc, images, idx + 1))

\* writeScanDataPartitionedNonInterleaved padding every partition at its end.
RECURSIVE writePartitions_PadEach(_, _, _, _, _)
writePartitions_PadEach(res, h, rc, images, idx) ==
    IF idx > Len(h.ThreadHandoffs) THEN res
    ELSE LET cmp     == h.JpegHeader.ScanComponentOrder[1]
             ci      == h.JpegHeader.CmpInfo[cmp]
             handoff == h.ThreadHandoffs[idx]
         IN  Bind(encodeScanDposRange(h, rc, images, cmp, handoff.LumaYStart * ci.Bch,
                      IF handoff.LumaYEnd * ci.Bch > ci.Bc THEN ci.Bc
                      ELSE handoff.LumaYEnd * ci.Bch,
                      TRUE, ResetFromOverhang(handoff.OverhangByte, handoff.NumOverhangBits),
                      IF cmp < h.JpegHeader.Cmpc THEN handoff.LastDC[cmp] ELSE 0),
                  LAMBDA part :
                 writePartitions_PadEach(
                     [err |-> part.err,
                      out |-> limitedWrite(res.out,
                                  IF handoff.SegmentSize < Len(part.buf)
                                  THEN SubSeq(part.buf, 1, handoff.SegmentSize) ELSE part.buf),
                      lastSegmentSlack |-> handoff.SegmentSize - Len(part.buf)],
                     h, rc, images, idx + 1))

writeScanDataPartitionedNonInterleaved_PadEach(h, rc, images, out) ==
    writePartitions_PadEach([err |-> "none", out |-> out, lastSegmentSlack |-> 0], h, rc,
                            images, 1)

\* writeScanDataPartitionedNonInterleaved: [err, out, lastSegmentSlack].
writeScanDataPartitionedNonInterleaved(h, rc, images, out) ==
    IF h.JpegHeader.Cmpc = 0 THEN [err |-> "none", out |-> out, lastSegmentSlack |-> 0]
    ELSE IF Len(h.JpegHeader.ScanComponentOrder) # 1
    THEN [err |-> "BadLeptonFile", out |-> out, lastSegmentSlack |-> 0]
    ELSE writePartitionsFrom([err |-> "none", out |-> out, lastSegmentSlack |-> 0], h, rc,
                             images, 1)

\* The blocks of the images: all zero, or a DC of 1 with four AC coefficients of 1.
PartBlocks ==
    {ZeroBlock, ZigzagToTransposedBlock([z \in 0..63 |-> IF z <= 4 THEN 1 ELSE 0])}

\* The JPEG header of an image one block wide and `rows` blocks high.
PartJpegHeader(rows, dri) ==
    parseJpegHeaderFull(SOI \o SegDQT \o SegSOF([PlainFile EXCEPT !.height = 8 * rows])
                            \o SegDHT \o SegDRI([PlainFile EXCEPT !.dri = dri]) \o SegSOS, 2)

\* The first luma rows of the handoffs of an image of `rows` block rows: 2 or 3 handoffs.
PartStarts(rows) ==
    {<<0, a>> : a \in 1..(rows - 1)}
    \cup {st \in {<<0, a, b>> : a \in 1..(rows - 1), b \in 1..(rows - 1)} : st[2] < st[3]}

\* LumaYEnd as parseThreadHandoffs and ReadLeptonHeader set it: the next handoff's
\* LumaYStart, and the height of component 0 for the last.
WithLumaYEnd(handoffs, rows) ==
    [i \in 1..Len(handoffs) |->
        [handoffs[i] EXCEPT !.LumaYEnd = IF i < Len(handoffs) THEN handoffs[i + 1].LumaYStart
                                         ELSE rows]]

\* The handoffs an encoder of the undivided scan records for the partitions that start at
\* the rows `starts`: the bits and the DC left by the partition before, the bytes of each.
RECURSIVE ConsistentHandoffs(_, _, _, _, _, _, _)
ConsistentHandoffs(h, rc, images, starts, rows, idx, before) ==
    IF idx > Len(starts) THEN << >>
    ELSE Bind(encodeScanDposRange(h, rc, images, 0, starts[idx],
                  IF idx < Len(starts) THEN starts[idx + 1] ELSE rows, idx = Len(starts),
                  ResetFromOverhang(before.OverhangByte, before.NumOverhangBits),
                  before.lastDC), LAMBDA part :
             << [LumaYStart |-> starts[idx], LumaYEnd |-> 0, SegmentSize |-> Len(part.buf),
                 OverhangByte |-> before.OverhangByte,
                 NumOverhangBits |-> before.NumOverhangBits,
                 LastDC |-> [j \in 0..3 |-> IF j = 0 THEN before.lastDC ELSE 0]] >>
             \o ConsistentHandoffs(h, rc, images, starts, rows, idx + 1,
                    [OverhangByte |-> U64Byte(U64Shr(part.bw.fillRegister, 56)),
                     NumOverhangBits |-> 64 - part.bw.currentBit, lastDC |-> part.lastDC]))

\* What a file may carry in place of them: nothing changed, a SegmentSize of one less, of 0
\* for the first or of two more for the last, other overhang bits for the second, or the
\* first two handoffs the other way round.
PartChanges(n) ==
    {[kind |-> "none", idx |-> 1], [kind |-> "swap", idx |-> 1], [kind |-> "zero", idx |-> 1],
     [kind |-> "more", idx |-> n], [kind |-> "overhang", idx |-> 2]}
    \cup {[kind |-> "less", idx |-> i] : i \in 1..n}

Changed(handoffs, change) ==
    IF change.kind = "swap"
    THEN [i \in 1..Len(handoffs) |->
             IF i = 1 THEN handoffs[2] ELSE IF i = 2 THEN handoffs[1] ELSE handoffs[i]]
    ELSE [i \in 1..Len(handoffs) |->
             IF i # change.idx \/ change.kind = "none" THEN handoffs[i]
             ELSE IF change.kind = "zero" THEN [handoffs[i] EXCEPT !.SegmentSize = 0]
             ELSE IF change.kind = "less"
             THEN [handoffs[i] EXCEPT !.SegmentSize = IF @ > 0 THEN @ - 1 ELSE 0]
             ELSE IF change.kind = "more" THEN [handoffs[i] EXCEPT !.SegmentSize = @ + 2]
             ELSE [handoffs[i] EXCEPT !.OverhangByte = 160, !.NumOverhangBits = 3]]

NoRestartCounts == [RestartCounts |-> << >>, RestartCountsSet |-> FALSE]

PartIdle ==
    /\ ptHeader = << >> /\ ptCounts = << >> /\ ptImages = << >> /\ ptConsistent = FALSE
    /\ ptRes = << >> /\ ptPc = "idle"

PartInit ==
    /\ \E rows \in 2..MaxPartRows, dri \in {0, 2} :
       \E hp \in {PartJpegHeader(rows, dri)} :
       \E images \in [1..rows -> PartBlocks], starts \in PartStarts(rows),
          rc \in {NoRestartCounts, [RestartCounts |-> <<1>>, RestartCountsSet |-> TRUE]} :
       \E recorded \in {ConsistentHandoffs([NewLeptonHeader EXCEPT !.JpegHeader = hp.header],
                             rc, images, starts, rows, 1,
                             [OverhangByte |-> 0, NumOverhangBits |-> 0, lastDC |-> 0])} :
       \E change \in PartChanges(Len(starts)) :
       \E handoffs \in {WithLumaYEnd(Changed(recorded, change), rows)} :
          /\ hp.err = "none"
          /\ rc # NoRestartCounts => change.kind = "none" /\ dri > 0
          /\ dri > 0 => change.kind \in {"none", "swap"}
          /\ ptHeader =
                [NewLeptonHeader EXCEPT
                    !.JpegType = "Sequential", !.ThreadCount = Len(starts),
                    !.hasJpegHeader = TRUE, !.JpegHeader = hp.header,
                    !.ThreadHandoffs = handoffs]
          /\ ptCounts = rc
          /\ ptImages = images
          /\ ptConsistent = (change.kind = "none" /\ rc = NoRestartCounts)
    /\ ptRes = << >>
    /\ ptPc = "header"

\* writeScanDataPartitionedNonInterleaved into an output that takes every byte.
PtWritePartitioned ==
    /\ ptPc = "header"
    /\ ptRes' = writeScanDataPartitionedNonInterleaved(ptHeader, ptCounts, ptImages, AnyOutput)
    /\ ptPc' = "written"
    /\ UNCHANGED <<ptHeader, ptCounts, ptImages, ptConsistent>>

(***************************************************************************)
(* Specifications.                                                         *)
(***************************************************************************)
InitBranch == BranchInit /\ ZigzagIdle /\ BitWriterIdle /\ VpxIdle /\ JpegIdle /\ LeptonHeaderIdle /\ DemuxIdle /\ ScanIdle /\ ProgIdle /\ CoefIdle /\ BitReaderIdle /\ BranchRunIdle /\ DcPredictIdle /\ CoefCodeIdle /\ QuantIdle /\ RowsIdle /\ ScanCapIdle /\ PartIdle
NextBranch ==
    \/ BranchUpdate(FALSE) /\ UNCHANGED <<zigzagVars, bitWriterVars, vpxVars, jpegVars, leptonHeaderVars, demuxVars, scanVars, progVars, coefVars, bitReaderVars, branchRunVars, dcPredictVars, coefCodeVars, quantVars, rowsVars, scanCapVars, partVars>>
    \/ BranchUpdate(TRUE) /\ UNCHANGED <<zigzagVars, bitWriterVars, vpxVars, jpegVars, leptonHeaderVars, demuxVars, scanVars, progVars, coefVars, bitReaderVars, branchRunVars, dcPredictVars, coefCodeVars, quantVars, rowsVars, scanCapVars, partVars>>
SpecBranch == InitBranch /\ [][NextBranch]_vars

InitZigzag == ZigzagInit /\ BranchIdle /\ BitWriterIdle /\ VpxIdle /\ JpegIdle /\ LeptonHeaderIdle /\ DemuxIdle /\ ScanIdle /\ ProgIdle /\ CoefIdle /\ BitReaderIdle /\ BranchRunIdle /\ DcPredictIdle /\ CoefCodeIdle /\ QuantIdle /\ RowsIdle /\ ScanCapIdle /\ PartIdle
NextZigzag ==
    \/ ZigzagConvertLoop /\ UNCHANGED <<branchVars, bitWriterVars, vpxVars, jpegVars, leptonHeaderVars, demuxVars, scanVars, progVars, coefVars, bitReaderVars, branchRunVars, dcPredictVars, coefCodeVars, quantVars, rowsVars, scanCapVars, partVars>>
    \/ ZigzagConvertTable /\ UNCHANGED <<branchVars, bitWriterVars, vpxVars, jpegVars, leptonHeaderVars, demuxVars, scanVars, progVars, coefVars, bitReaderVars, branchRunVars, dcPredictVars, coefCodeVars, quantVars, rowsVars, scanCapVars, partVars>>
    \/ ZigzagBack /\ UNCHANGED <<branchVars, bitWriterVars, vpxVars, jpegVars, leptonHeaderVars, demuxVars, scanVars, progVars, coefVars, bitReaderVars, branchRunVars, dcPredictVars, coefCodeVars, quantVars, rowsVars, scanCapVars, partVars>>
SpecZigzag == InitZigzag /\ [][NextZigzag]_vars

InitBitWriter == BitWriterInit /\ BranchIdle /\ ZigzagIdle /\ VpxIdle /\ JpegIdle /\ LeptonHeaderIdle /\ DemuxIdle /\ ScanIdle /\ ProgIdle /\ CoefIdle /\ BitReaderIdle /\ BranchRunIdle /\ DcPredictIdle /\ CoefCodeIdle /\ QuantIdle /\ RowsIdle /\ ScanCapIdle /\ PartIdle
NextBitWriter ==
    \/ BwWrite /\ UNCHANGED <<branchVars, zigzagVars, vpxVars, jpegVars, leptonHeaderVars, demuxVars, scanVars, progVars, coefVars, bitReaderVars, branchRunVars, dcPredictVars, coefCodeVars, quantVars, rowsVars, scanCapVars, partVars>>
    \/ BwPad /\ UNCHANGED <<branchVars, zigzagVars, vpxVars, jpegVars, leptonHeaderVars, demuxVars, scanVars, progVars, coefVars, bitReaderVars, branchRunVars, dcPredictVars, coefCodeVars, quantVars, rowsVars, scanCapVars, partVars>>
    \/ BwWriteByte /\ UNCHANGED <<branchVars, zigzagVars, vpxVars, jpegVars, leptonHeaderVars, demuxVars, scanVars, progVars, coefVars, bitReaderVars, branchRunVars, dcPredictVars, coefCodeVars, quantVars, rowsVars, scanCapVars, partVars>>
    \/ BwWriteByteUnescaped /\ UNCHANGED <<branchVars, zigzagVars, vpxVars, jpegVars, leptonHeaderVars, demuxVars, scanVars, progVars, coefVars, bitReaderVars, branchRunVars, dcPredictVars, coefCodeVars, quantVars, rowsVars, scanCapVars, partVars>>
    \/ BwDetachBuffer /\ UNCHANGED <<branchVars, zigzagVars, vpxVars, jpegVars, leptonHeaderVars, demuxVars, scanVars, progVars, coefVars, bitReaderVars, branchRunVars, dcPredictVars, coefCodeVars, quantVars, rowsVars, scanCapVars, partVars>>
SpecBitWriter == InitBitWriter /\ [][NextBitWriter]_vars

InitVpx == VpxInit /\ BranchIdle /\ ZigzagIdle /\ BitWriterIdle /\ JpegIdle /\ LeptonHeaderIdle /\ DemuxIdle /\ ScanIdle /\ ProgIdle /\ CoefIdle /\ BitReaderIdle /\ BranchRunIdle /\ DcPredictIdle /\ CoefCodeIdle /\ QuantIdle /\ RowsIdle /\ ScanCapIdle /\ PartIdle
NextVpx ==
    \/ VpxPutBit /\ UNCHANGED <<branchVars, zigzagVars, bitWriterVars, jpegVars, leptonHeaderVars, demuxVars, scanVars, progVars, coefVars, bitReaderVars, branchRunVars, dcPredictVars, coefCodeVars, quantVars, rowsVars, scanCapVars, partVars>>
    \/ VpxPutGrid /\ UNCHANGED <<branchVars, zigzagVars, bitWriterVars, jpegVars, leptonHeaderVars, demuxVars, scanVars, progVars, coefVars, bitReaderVars, branchRunVars, dcPredictVars, coefCodeVars, quantVars, rowsVars, scanCapVars, partVars>>
    \/ VpxFinish /\ UNCHANGED <<branchVars, zigzagVars, bitWriterVars, jpegVars, leptonHeaderVars, demuxVars, scanVars, progVars, coefVars, bitReaderVars, branchRunVars, dcPredictVars, coefCodeVars, quantVars, rowsVars, scanCapVars, partVars>>
    \/ VpxNewReader /\ UNCHANGED <<branchVars, zigzagVars, bitWriterVars, jpegVars, leptonHeaderVars, demuxVars, scanVars, progVars, coefVars, bitReaderVars, branchRunVars, dcPredictVars, coefCodeVars, quantVars, rowsVars, scanCapVars, partVars>>
    \/ VpxGetBit /\ UNCHANGED <<branchVars, zigzagVars, bitWriterVars, jpegVars, leptonHeaderVars, demuxVars, scanVars, progVars, coefVars, bitReaderVars, branchRunVars, dcPredictVars, coefCodeVars, quantVars, rowsVars, scanCapVars, partVars>>
    \/ VpxGetGrid /\ UNCHANGED <<branchVars, zigzagVars, bitWriterVars, jpegVars, leptonHeaderVars, demuxVars, scanVars, progVars, coefVars, bitReaderVars, branchRunVars, dcPredictVars, coefCodeVars, quantVars, rowsVars, scanCapVars, partVars>>
SpecVpx == InitVpx /\ [][NextVpx]_vars

InitJpeg == JpegInit /\ BranchIdle /\ ZigzagIdle /\ BitWriterIdle /\ VpxIdle /\ LeptonHeaderIdle /\ DemuxIdle /\ ScanIdle /\ ProgIdle /\ CoefIdle /\ BitReaderIdle /\ BranchRunIdle /\ DcPredictIdle /\ CoefCodeIdle /\ QuantIdle /\ RowsIdle /\ ScanCapIdle /\ PartIdle
NextJpeg ==
    \/ JpReadJpegFile /\ UNCHANGED <<branchVars, zigzagVars, bitWriterVars, vpxVars, leptonHeaderVars, demuxVars, scanVars, progVars, coefVars, bitReaderVars, branchRunVars, dcPredictVars, coefCodeVars, quantVars, rowsVars, scanCapVars, partVars>>
    \/ JpEncode /\ UNCHANGED <<branchVars, zigzagVars, bitWriterVars, vpxVars, leptonHeaderVars, demuxVars, scanVars, progVars, coefVars, bitReaderVars, branchRunVars, dcPredictVars, coefCodeVars, quantVars, rowsVars, scanCapVars, partVars>>
    \/ JpDecodeLepton /\ UNCHANGED <<branchVars, zigzagVars, bitWriterVars, vpxVars, leptonHeaderVars, demuxVars, scanVars, progVars, coefVars, bitReaderVars, branchRunVars, dcPredictVars, coefCodeVars, quantVars, rowsVars, scanCapVars, partVars>>
    \/ JpDecodeResized /\ UNCHANGED <<branchVars, zigzagVars, bitWriterVars, vpxVars, leptonHeaderVars, demuxVars, scanVars, progVars, coefVars, bitReaderVars, branchRunVars, dcPredictVars, coefCodeVars, quantVars, rowsVars, scanCapVars, partVars>>
    \/ JpEncodeVerify /\ UNCHANGED <<branchVars, zigzagVars, bitWriterVars, vpxVars, leptonHeaderVars, demuxVars, scanVars, progVars, coefVars, bitReaderVars, branchRunVars, dcPredictVars, coefCodeVars, quantVars, rowsVars, scanCapVars, partVars>>
SpecJpeg == InitJpeg /\ [][NextJpeg]_vars

InitLeptonHeader == LeptonHeaderInit /\ BranchIdle /\ ZigzagIdle /\ BitWriterIdle /\ VpxIdle /\ JpegIdle /\ DemuxIdle /\ ScanIdle /\ ProgIdle /\ CoefIdle /\ BitReaderIdle /\ BranchRunIdle /\ DcPredictIdle /\ CoefCodeIdle /\ QuantIdle /\ RowsIdle /\ ScanCapIdle /\ PartIdle
NextLeptonHeader ==
    LhReadLeptonHeader /\ UNCHANGED <<branchVars, zigzagVars, bitWriterVars, vpxVars, jpegVars, demuxVars, scanVars, progVars, coefVars, bitReaderVars, branchRunVars, dcPredictVars, coefCodeVars, quantVars, rowsVars, scanCapVars, partVars>>
SpecLeptonHeader == InitLeptonHeader /\ [][NextLeptonHeader]_vars

InitDemux == DemuxInit /\ BranchIdle /\ ZigzagIdle /\ BitWriterIdle /\ VpxIdle /\ JpegIdle /\ LeptonHeaderIdle /\ ScanIdle /\ ProgIdle /\ CoefIdle /\ BitReaderIdle /\ BranchRunIdle /\ DcPredictIdle /\ CoefCodeIdle /\ QuantIdle /\ RowsIdle /\ ScanCapIdle /\ PartIdle
NextDemux ==
    \/ DmEmitBlock /\ UNCHANGED <<branchVars, zigzagVars, bitWriterVars, vpxVars, jpegVars, leptonHeaderVars, scanVars, progVars, coefVars, bitReaderVars, branchRunVars, dcPredictVars, coefCodeVars, quantVars, rowsVars, scanCapVars, partVars>>
    \/ DmMultiplexSingleThread /\ UNCHANGED <<branchVars, zigzagVars, bitWriterVars, vpxVars, jpegVars, leptonHeaderVars, scanVars, progVars, coefVars, bitReaderVars, branchRunVars, dcPredictVars, coefCodeVars, quantVars, rowsVars, scanCapVars, partVars>>
    \/ DmDemultiplex /\ UNCHANGED <<branchVars, zigzagVars, bitWriterVars, vpxVars, jpegVars, leptonHeaderVars, scanVars, progVars, coefVars, bitReaderVars, branchRunVars, dcPredictVars, coefCodeVars, quantVars, rowsVars, scanCapVars, partVars>>
SpecDemux == InitDemux /\ [][NextDemux]_vars

InitScan == ScanInit /\ BranchIdle /\ ZigzagIdle /\ BitWriterIdle /\ VpxIdle /\ JpegIdle /\ LeptonHeaderIdle /\ DemuxIdle /\ ProgIdle /\ CoefIdle /\ BitReaderIdle /\ BranchRunIdle /\ DcPredictIdle /\ CoefCodeIdle /\ QuantIdle /\ RowsIdle /\ ScanCapIdle /\ PartIdle
NextScan ==
    \/ ScReadBlock /\ UNCHANGED <<branchVars, zigzagVars, bitWriterVars, vpxVars, jpegVars, leptonHeaderVars, demuxVars, progVars, coefVars, bitReaderVars, branchRunVars, dcPredictVars, coefCodeVars, quantVars, rowsVars, scanCapVars, partVars>>
    \/ ScWriteScan /\ UNCHANGED <<branchVars, zigzagVars, bitWriterVars, vpxVars, jpegVars, leptonHeaderVars, demuxVars, progVars, coefVars, bitReaderVars, branchRunVars, dcPredictVars, coefCodeVars, quantVars, rowsVars, scanCapVars, partVars>>
SpecScan == InitScan /\ [][NextScan]_vars

InitProg == ProgInit /\ BranchIdle /\ ZigzagIdle /\ BitWriterIdle /\ VpxIdle /\ JpegIdle /\ LeptonHeaderIdle /\ DemuxIdle /\ ScanIdle /\ CoefIdle /\ BitReaderIdle /\ BranchRunIdle /\ DcPredictIdle /\ CoefCodeIdle /\ QuantIdle /\ RowsIdle /\ ScanCapIdle /\ PartIdle
NextProg ==
    \/ PgReadBlock /\ UNCHANGED <<branchVars, zigzagVars, bitWriterVars, vpxVars, jpegVars, leptonHeaderVars, demuxVars, scanVars, coefVars, bitReaderVars, branchRunVars, dcPredictVars, coefCodeVars, quantVars, rowsVars, scanCapVars, partVars>>
    \/ PgWriteScan /\ UNCHANGED <<branchVars, zigzagVars, bitWriterVars, vpxVars, jpegVars, leptonHeaderVars, demuxVars, scanVars, coefVars, bitReaderVars, branchRunVars, dcPredictVars, coefCodeVars, quantVars, rowsVars, scanCapVars, partVars>>
    \/ PgWriteRefined /\ UNCHANGED <<branchVars, zigzagVars, bitWriterVars, vpxVars, jpegVars, leptonHeaderVars, demuxVars, scanVars, coefVars, bitReaderVars, branchRunVars, dcPredictVars, coefCodeVars, quantVars, rowsVars, scanCapVars, partVars>>
SpecProg == InitProg /\ [][NextProg]_vars

InitCoef == CoefInit /\ BranchIdle /\ ZigzagIdle /\ BitWriterIdle /\ VpxIdle /\ JpegIdle /\ LeptonHeaderIdle /\ DemuxIdle /\ ScanIdle /\ ProgIdle /\ BitReaderIdle /\ BranchRunIdle /\ DcPredictIdle /\ CoefCodeIdle /\ QuantIdle /\ RowsIdle /\ ScanCapIdle /\ PartIdle
NextCoef ==
    \/ CfWriteBlock /\ UNCHANGED <<branchVars, zigzagVars, bitWriterVars, vpxVars, jpegVars, leptonHeaderVars, demuxVars, scanVars, progVars, bitReaderVars, branchRunVars, dcPredictVars, coefCodeVars, quantVars, rowsVars, scanCapVars, partVars>>
    \/ CfReadBlock /\ UNCHANGED <<branchVars, zigzagVars, bitWriterVars, vpxVars, jpegVars, leptonHeaderVars, demuxVars, scanVars, progVars, bitReaderVars, branchRunVars, dcPredictVars, coefCodeVars, quantVars, rowsVars, scanCapVars, partVars>>
SpecCoef == InitCoef /\ [][NextCoef]_vars

InitBitReader == BitReaderInit /\ BranchIdle /\ ZigzagIdle /\ BitWriterIdle /\ VpxIdle /\ JpegIdle /\ LeptonHeaderIdle /\ DemuxIdle /\ ScanIdle /\ ProgIdle /\ CoefIdle /\ BranchRunIdle /\ DcPredictIdle /\ CoefCodeIdle /\ QuantIdle /\ RowsIdle /\ ScanCapIdle /\ PartIdle
NextBitReader ==
    \/ RdRead /\ UNCHANGED <<branchVars, zigzagVars, bitWriterVars, vpxVars, jpegVars, leptonHeaderVars, demuxVars, scanVars, progVars, coefVars, branchRunVars, dcPredictVars, coefCodeVars, quantVars, rowsVars, scanCapVars, partVars>>
    \/ RdFillBits /\ UNCHANGED <<branchVars, zigzagVars, bitWriterVars, vpxVars, jpegVars, leptonHeaderVars, demuxVars, scanVars, progVars, coefVars, branchRunVars, dcPredictVars, coefCodeVars, quantVars, rowsVars, scanCapVars, partVars>>
    \/ RdVerifyResetCode /\ UNCHANGED <<branchVars, zigzagVars, bitWriterVars, vpxVars, jpegVars, leptonHeaderVars, demuxVars, scanVars, progVars, coefVars, branchRunVars, dcPredictVars, coefCodeVars, quantVars, rowsVars, scanCapVars, partVars>>
SpecBitReader == InitBitReader /\ [][NextBitReader]_vars

InitBranchRun == BranchRunInit /\ BranchIdle /\ ZigzagIdle /\ BitWriterIdle /\ VpxIdle /\ JpegIdle /\ LeptonHeaderIdle /\ DemuxIdle /\ ScanIdle /\ ProgIdle /\ CoefIdle /\ BitReaderIdle /\ DcPredictIdle /\ CoefCodeIdle /\ QuantIdle /\ RowsIdle /\ ScanCapIdle /\ PartIdle
NextBranchRun ==
    BranchRunUpdate /\ UNCHANGED <<branchVars, zigzagVars, bitWriterVars, vpxVars, jpegVars, leptonHeaderVars, demuxVars, scanVars, progVars, coefVars, bitReaderVars, dcPredictVars, coefCodeVars, quantVars, rowsVars, scanCapVars, partVars>>
SpecBranchRun == InitBranchRun /\ [][NextBranchRun]_vars

InitDcPredict == DcPredictInit /\ BranchIdle /\ ZigzagIdle /\ BitWriterIdle /\ VpxIdle /\ JpegIdle /\ LeptonHeaderIdle /\ DemuxIdle /\ ScanIdle /\ ProgIdle /\ CoefIdle /\ BitReaderIdle /\ BranchRunIdle /\ CoefCodeIdle /\ QuantIdle /\ RowsIdle /\ ScanCapIdle /\ PartIdle
NextDcPredict ==
    \/ DcWrite /\ UNCHANGED <<branchVars, zigzagVars, bitWriterVars, vpxVars, jpegVars, leptonHeaderVars, demuxVars, scanVars, progVars, coefVars, bitReaderVars, branchRunVars, coefCodeVars, quantVars, rowsVars, scanCapVars, partVars>>
    \/ DcRead /\ UNCHANGED <<branchVars, zigzagVars, bitWriterVars, vpxVars, jpegVars, leptonHeaderVars, demuxVars, scanVars, progVars, coefVars, bitReaderVars, branchRunVars, coefCodeVars, quantVars, rowsVars, scanCapVars, partVars>>
SpecDcPredict == InitDcPredict /\ [][NextDcPredict]_vars

InitCoefCode == CoefCodeInit /\ BranchIdle /\ ZigzagIdle /\ BitWriterIdle /\ VpxIdle /\ JpegIdle /\ LeptonHeaderIdle /\ DemuxIdle /\ ScanIdle /\ ProgIdle /\ CoefIdle /\ BitReaderIdle /\ BranchRunIdle /\ DcPredictIdle /\ QuantIdle /\ RowsIdle /\ ScanCapIdle /\ PartIdle
NextCoefCode ==
    \/ CcWrite /\ UNCHANGED <<branchVars, zigzagVars, bitWriterVars, vpxVars, jpegVars, leptonHeaderVars, demuxVars, scanVars, progVars, coefVars, bitReaderVars, branchRunVars, dcPredictVars, quantVars, rowsVars, scanCapVars, partVars>>
    \/ CcRead /\ UNCHANGED <<branchVars, zigzagVars, bitWriterVars, vpxVars, jpegVars, leptonHeaderVars, demuxVars, scanVars, progVars, coefVars, bitReaderVars, branchRunVars, dcPredictVars, quantVars, rowsVars, scanCapVars, partVars>>
SpecCoefCode == InitCoefCode /\ [][NextCoefCode]_vars

InitQuant == QuantInit /\ BranchIdle /\ ZigzagIdle /\ BitWriterIdle /\ VpxIdle /\ JpegIdle /\ LeptonHeaderIdle /\ DemuxIdle /\ ScanIdle /\ ProgIdle /\ CoefIdle /\ BitReaderIdle /\ BranchRunIdle /\ DcPredictIdle /\ CoefCodeIdle /\ RowsIdle /\ ScanCapIdle /\ PartIdle
NextQuant ==
    \/ QnNewQuantizationTables /\ UNCHANGED <<branchVars, zigzagVars, bitWriterVars, vpxVars, jpegVars, leptonHeaderVars, demuxVars, scanVars, progVars, coefVars, bitReaderVars, branchRunVars, dcPredictVars, coefCodeVars, rowsVars, scanCapVars, partVars>>
    \/ QnWriteEdgeCoefficient /\ UNCHANGED <<branchVars, zigzagVars, bitWriterVars, vpxVars, jpegVars, leptonHeaderVars, demuxVars, scanVars, progVars, coefVars, bitReaderVars, branchRunVars, dcPredictVars, coefCodeVars, rowsVars, scanCapVars, partVars>>
SpecQuant == InitQuant /\ [][NextQuant]_vars

InitRows == RowsInit /\ BranchIdle /\ ZigzagIdle /\ BitWriterIdle /\ VpxIdle /\ JpegIdle /\ LeptonHeaderIdle /\ DemuxIdle /\ ScanIdle /\ ProgIdle /\ CoefIdle /\ BitReaderIdle /\ BranchRunIdle /\ DcPredictIdle /\ CoefCodeIdle /\ QuantIdle /\ ScanCapIdle /\ PartIdle
NextRows ==
    \/ EncodeRowRangeTurn /\ UNCHANGED <<branchVars, zigzagVars, bitWriterVars, vpxVars, jpegVars, leptonHeaderVars, demuxVars, scanVars, progVars, coefVars, bitReaderVars, branchRunVars, dcPredictVars, coefCodeVars, quantVars, scanCapVars, partVars>>
    \/ DecodeRowRangeTurn /\ UNCHANGED <<branchVars, zigzagVars, bitWriterVars, vpxVars, jpegVars, leptonHeaderVars, demuxVars, scanVars, progVars, coefVars, bitReaderVars, branchRunVars, dcPredictVars, coefCodeVars, quantVars, scanCapVars, partVars>>
SpecRows == InitRows /\ [][NextRows]_vars

InitScanCap == ScanCapInit /\ BranchIdle /\ ZigzagIdle /\ BitWriterIdle /\ VpxIdle /\ JpegIdle /\ LeptonHeaderIdle /\ DemuxIdle /\ ScanIdle /\ ProgIdle /\ CoefIdle /\ BitReaderIdle /\ BranchRunIdle /\ DcPredictIdle /\ CoefCodeIdle /\ QuantIdle /\ RowsIdle /\ PartIdle
NextScanCap ==
    \/ CapWriteJpeg /\ UNCHANGED <<branchVars, zigzagVars, bitWriterVars, vpxVars, jpegVars, leptonHeaderVars, demuxVars, scanVars, progVars, coefVars, bitReaderVars, branchRunVars, dcPredictVars, coefCodeVars, quantVars, rowsVars, partVars>>
SpecScanCap == InitScanCap /\ [][NextScanCap]_vars

InitPart == PartInit /\ BranchIdle /\ ZigzagIdle /\ BitWriterIdle /\ VpxIdle /\ JpegIdle /\ LeptonHeaderIdle /\ DemuxIdle /\ ScanIdle /\ ProgIdle /\ CoefIdle /\ BitReaderIdle /\ BranchRunIdle /\ DcPredictIdle /\ CoefCodeIdle /\ QuantIdle /\ RowsIdle /\ ScanCapIdle
NextPart ==
    \/ PtWritePartitioned /\ UNCHANGED <<branchVars, zigzagVars, bitWriterVars, vpxVars, jpegVars, leptonHeaderVars, demuxVars, scanVars, progVars, coefVars, bitReaderVars, branchRunVars, dcPredictVars, coefCodeVars, quantVars, rowsVars, scanCapVars>>
SpecPart == InitPart /\ [][NextPart]_vars

(***************************************************************************)
(* Claims.                                                                 *)
(***************************************************************************)
Swap16(s) == (s % 256) * 256 + (s \div 256)

\* C4: RecordAndUpdateBit(false) maps 0x0101 -> 0x0201, 0x80ff -> 0x81ff,
\* 0xff01 -> 0xff01, 0xff02 -> 0x8101, 0xffff -> 0x8180, and for every 16-bit
\* counts value the update with true is the byte-swapped mirror of the update
\* with false on the byte-swapped value.
C4_BranchVectors ==
    brPc = "updated" =>
        /\ (~brBit /\ brPrev = \H0101) => brCounts = \H0201
        /\ (~brBit /\ brPrev = \H80ff) => brCounts = \H81ff
        /\ (~brBit /\ brPrev = \Hff01) => brCounts = \Hff01
        /\ (~brBit /\ brPrev = \Hff02) => brCounts = \H8101
        /\ (~brBit /\ brPrev = \Hffff) => brCounts = \H8180
        /\ brBit => brCounts = Swap16(RecordAndUpdateBit(Swap16(brPrev), FALSE))

C4_Witness ==
    brPc = "updated" /\ brBit /\ brPrev = \H02ff /\ brCounts = \H0181

\* C7: converting a 64-entry block from zigzag order to transposed order and
\* back returns the original block, with either zigzag-to-transposed routine,
\* and the ZigzagToTransposed table is a permutation of 0..63.
C7_ZigzagRoundTrip ==
    zzPc = "back" =>
        /\ zzOut = zzIn
        /\ {ZigzagToTransposed[i] : i \in 1..64} = 0..63

C7_Witness ==
    zzPc = "back" /\ zzIn = [i \in 0..63 |-> i - 31] /\ zzTr[8] = 1 - 31 /\ zzOut = zzIn

\* The bit string a call sequence writes, kept as (bytes so far, bits not yet
\* cut into a byte).  Every byte carries where it came from: "data" (cut from
\* the bit string), "stuff" (the 0x00 after a 0xFF data byte) or "raw".
BitsOf(val, n) == [i \in 1..n |-> (val \div Pow2(n - i)) % 2]

ByteOfBits(bits) ==
    128 * bits[1] + 64 * bits[2] + 32 * bits[3] + 16 * bits[4]
        + 8 * bits[5] + 4 * bits[6] + 2 * bits[7] + bits[8]

RECURSIVE CutBytes(_)
CutBytes(r) ==
    IF Len(r.bits) < 8 THEN r
    ELSE Bind(ByteOfBits(r.bits), LAMBDA b :
         Bind([out  |-> r.out \o (IF b = 255 THEN <<<<255, "data">>, <<0, "stuff">>>>
                                              ELSE <<<<b, "data">>>>),
               bits |-> SubSeq(r.bits, 9, Len(r.bits))],
              LAMBDA next : CutBytes(next)))

PadBits(r, fill) == [k \in 1..((8 - (Len(r.bits) % 8)) % 8) |-> IF fill = 0 THEN 0 ELSE 1]

\* rawIsData: a WriteByte byte is read as eight more bits of the bit string.
RECURSIVE WrittenStream(_, _, _)
WrittenStream(log, i, rawIsData) ==
    IF i = 0 THEN [out |-> <<>>, bits |-> <<>>]
    ELSE Bind(WrittenStream(log, i - 1, rawIsData), LAMBDA r :
         Bind(log[i], LAMBDA e :
             CASE e[1] = "Write" -> [r EXCEPT !.bits = r.bits \o BitsOf(e[2], e[3])]
               [] e[1] = "Pad"   ->
                    Bind([r EXCEPT !.bits = r.bits \o PadBits(r, e[2])], LAMBDA p : CutBytes(p))
               [] e[1] = "WriteByte" /\ rawIsData -> [r EXCEPT !.bits = r.bits \o BitsOf(e[2], 8)]
               [] OTHER -> [r EXCEPT !.out = Append(r.out, <<e[2], "raw">>)]))

\* What DetachBuffer should hand out: the whole bytes of the stream.
ExpectedTagged(log, rawIsData) ==
    Bind(WrittenStream(log, Len(log), rawIsData), LAMBDA r : CutBytes(r).out)
BytesOfTagged(t) == [k \in 1..Len(t) |-> t[k][1]]
ExpectedBytes(log, rawIsData) == BytesOfTagged(ExpectedTagged(log, rawIsData))

\* Positions of 0xFF bytes that are not followed by 0x00.
UnescapedFF(bytes) ==
    {k \in 1..Len(bytes) : bytes[k] = 255 /\ (k = Len(bytes) \/ bytes[k + 1] # 0)}

\* Call i is made on a writer with no remainder (HasNoRemainder): nothing is
\* waiting in the fill register.
RECURSIVE NoRemainderBefore(_, _)
NoRemainderBefore(log, i) ==
    \/ i = 1
    \/ /\ i > 1
       /\ \/ log[i - 1][1] = "Pad"
          \/ log[i - 1][1] \in {"WriteByte", "WriteByteUnescaped"} /\ NoRemainderBefore(log, i - 1)

IsRawCall(e) == e[1] \in {"WriteByte", "WriteByteUnescaped"}

RawCallsOnEmptyRegister(log) ==
    \A i \in 1..Len(log) : IsRawCall(log[i]) => NoRemainderBefore(log, i)

\* C6 (as stated): for any sequence of Write, WriteByte and Pad calls the bytes
\* handed out are the written bit string cut MSB-first into bytes with 0x00
\* after every 0xFF, and no 0xFF of the output lacks its 0x00.
C6_AsStated ==
    (bwPc = "detached" /\ \A i \in 1..Len(bwLog) : bwLog[i][1] # "WriteByteUnescaped") =>
        /\ bwOut = ExpectedBytes(bwLog, TRUE)
        /\ UnescapedFF(bwOut) = {}

\* C6 (amended): when WriteByte and WriteByteUnescaped are only called on a
\* writer with no remainder, the bytes handed out are the Write/Pad bit string
\* cut MSB-first into whole bytes with 0x00 after every 0xFF data byte, the
\* WriteByte/WriteByteUnescaped bytes standing verbatim where they were
\* written; every 0xFF of the output that is not followed by 0x00 was written
\* through WriteByte or WriteByteUnescaped.
C6_BitWriterStream ==
    (bwPc = "detached" /\ RawCallsOnEmptyRegister(bwLog)) =>
        \A t \in {ExpectedTagged(bwLog, FALSE)} :
            /\ bwOut = BytesOfTagged(t)
            /\ \A k \in UnescapedFF(bwOut) : t[k][2] = "raw"

C6_Witness ==
    /\ bwPc = "detached"
    /\ bwLog = << <<"Write", \H7fffffff, 31>>, <<"Write", \H7fffffff, 31>>,
                  <<"Write", \H2aff00ff, 31>>, <<"Pad", 255, 0>>,
                  <<"WriteByteUnescaped", 255, 0>> >>
    /\ Len(bwOut) = 12 + 8 + 1
    /\ bwOut[Len(bwOut)] = 255

\* C5: after any sequence of PutBit / PutGrid operations on fresh branches and
\* Finish, a reader over the produced bytes doing the matching GetBit / GetGrid
\* operations on fresh branches is created without error and returns exactly
\* the written values in the written order.
C5_VpxRoundTrip ==
    /\ vpxPc \notin {"panic", "inconsistent"}
    /\ vpxPc \in {"reading", "read"} =>
          vpxR.got = SubSeq(vpxW.written, 1, Len(vpxR.got))

C5_Witness ==
    /\ vpxPc = "read"
    /\ vpxProg = << <<"grid", 0>>, <<"grid", 10>> >>
    /\ Len(vpxW.written) = MaxVpxOps
    /\ vpxR.got = vpxW.written
    /\ vpxW.w.flushes >= 1
    /\ vpxW.w.carries >= 1

\* The file DecodeLepton was given is the one Encode wrote.
DecodedAsWritten == jpPc = "decoded" /\ jpFile = jpEnc.data

\* C1: for every JPEG file that Encode accepts, DecodeLepton on the bytes Encode wrote
\* succeeds and returns the file byte for byte (restart markers, pad bits, trailing
\* garbage and truncated files included).
C1_RoundTrip == DecodedAsWritten => jpDec.err = "none" /\ jpDec.data = jpIn

\* What an independent Encode and DecodeLepton of the same input came to.
RoundTripFailed == jpEnc.err = "none" /\ (jpDec.err # "none" \/ jpDec.data # jpIn)

\* C2: EncodeVerify returns Lepton bytes only if decoding them gives back the input byte
\* for byte; when the decoded bytes differ from the input, or decoding fails, it returns
\* an error (VerificationContentMismatch for a difference in content) and no Lepton data.
C2_EncodeVerify ==
    jpPc = "verified" =>
        /\ jpVer.returned =>
              /\ jpVer.err = "none" /\ jpEnc.err = "none" /\ jpVer.data = jpEnc.data
              /\ jpDec.err = "none" /\ jpDec.data = jpIn
        /\ RoundTripFailed =>
              /\ ~jpVer.returned /\ jpVer.data = <<>> /\ jpVer.err # "none"
              /\ jpDec.err = "none" => jpVer.err = "VerificationContentMismatch"

\* EncodeVerify has refused a file whose decoded bytes differ from the input.
C2_Witness ==
    /\ jpPc = "verified" /\ jpEnc.err = "none" /\ jpDec.err = "none" /\ jpDec.data # jpIn
    /\ jpVer.err = "VerificationContentMismatch" /\ ~jpVer.returned

\* C3: for every Lepton file DecodeLepton accepts, the number of JPEG bytes written is
\* exactly the OriginalFileSize of the fixed header (bytes 20..23): what the writer
\* produces beyond it is dropped without an error, and the output is never shorter.
C3_OutputSize ==
    jpPc = "decoded" /\ jpDec.err = "none" => Len(jpDec.data) = Uint32(jpFile, 20)

\* DecodeLepton has accepted a file whose writer produced more than OriginalFileSize
\* bytes, and wrote exactly OriginalFileSize bytes.
C3_Witness ==
    /\ jpPc = "decoded" /\ jpDec.err = "none" /\ Uint32(jpFile, 20) < Len(jpIn)
    /\ Len(jpDec.data) = Uint32(jpFile, 20)

\* C8: a JPEG file with bytes before SOI is accepted by Encode, and the decoded output is
\* those bytes, then SOI and the rest of the file.
C8_PrefixPreserved ==
    jpDesc.prefix # <<>> =>
        /\ jpPc = "encoded" => jpEnc.err = "none"
        /\ DecodedAsWritten => jpDec.err = "none" /\ jpDec.data = jpIn

SamplingBeyondTwo(d) == d.sampling \div 16 > 2 \/ d.sampling % 16 > 2

\* The frame passes the checks parseSOFRead makes before it reads the component list.
FrameHeadAccepted(d) == d.prefix = <<>> /\ d.precision = 8 /\ d.height # 0 /\ d.ncomp <= 4

\* C9 (amended): ReadJpegFile returns no result and SamplingBeyondTwoUnsupported when the
\* frame passes the checks before its component list and a component has a sampling
\* factor above 2, the components before it being acceptable -- also in a frame of 4
\* components; it returns no result and Unsupported4Colors when the header parses up to
\* and including SOS and the frame has 4 components, none with a sampling factor above 2.
C9_Rejections ==
    jpPc = "read" =>
        /\ FrameHeadAccepted(jpDesc) /\ SamplingBeyondTwo(jpDesc) /\ (jpDesc.ncomp = 1 \/ jpDesc.tq < 4)
              => jpRead.err = "SamplingBeyondTwoUnsupported" /\ ~jpRead.returned
        /\ FrameHeadAccepted(jpDesc) /\ jpDesc.ncomp = 4 /\ ~SamplingBeyondTwo(jpDesc)
              /\ jpDesc.tq < 4 /\ jpDesc.sos
              => jpRead.err = "Unsupported4Colors" /\ ~jpRead.returned

\* A frame of 4 components, one of them sampled 3x1, has been rejected for its sampling.
C9_Witness ==
    /\ jpPc = "read" /\ jpDesc.ncomp = 4 /\ jpDesc.sampling = 49 /\ FrameHeadAccepted(jpDesc)
    /\ jpDesc.tq < 4 /\ jpRead.err = "SamplingBeyondTwoUnsupported" /\ ~jpRead.returned

\* C9 as stated: every JPEG whose frame declares 4 components is rejected with
\* Unsupported4Colors, and every JPEG with a sampling factor above 2 in a component is
\* rejected with SamplingBeyondTwoUnsupported; no read result in both cases.
C9_AsStated ==
    jpPc = "read" =>
        /\ jpDesc.ncomp = 4 => jpRead.err = "Unsupported4Colors" /\ ~jpRead.returned
        /\ SamplingBeyondTwo(jpDesc) => jpRead.err = "SamplingBeyondTwoUnsupported" /\ ~jpRead.returned

\* The section list reaches a 3-byte marker that is no section marker after sections that
\* are all well formed.
UnknownMarkerReached(sections) ==
    \E i \in 1..Len(sections) :
        /\ sections[i] \in UnknownMarkers
        /\ \A j \in 1..(i - 1) : sections[j] \in KnownSections

\* C10: ReadLeptonHeader returns an error and no header when the fixed header or the
\* section list is malformed; the checks come in the order of the bytes: magic bytes other
\* than CF 84 give BadLeptonFile, then a version byte other than 1 gives
\* VersionUnsupported, then a type byte other than 'Z' or 'X' gives BadLeptonFile, then a
\* 3-byte marker of the decompressed header that is no known section gives BadLeptonFile.
C10_MalformedHeader ==
    lhPc = "done" /\ Len(lhIn) >= 28 =>
        LET magicOk   == At(lhIn, 0) = 207 /\ At(lhIn, 1) = 132
            versionOk == At(lhIn, 2) = 1
            typeOk    == At(lhIn, 3) \in {90, 88}
        IN  /\ ~magicOk => lhRes.err = "BadLeptonFile"
            /\ magicOk /\ ~versionOk => lhRes.err = "VersionUnsupported"
            /\ magicOk /\ versionOk /\ ~typeOk => lhRes.err = "BadLeptonFile"
            /\ magicOk /\ versionOk /\ typeOk /\ lhDesc.keep < 0
                  /\ UnknownMarkerReached(lhDesc.sections) => lhRes.err = "BadLeptonFile"
            /\ lhRes.err # "none" => ~lhRes.returned

\* A file with a good fixed header, an HDR section and then the bytes XYZ has been refused.
C10_Witness ==
    /\ lhPc = "done" /\ lhDesc = [PlainLepton EXCEPT !.sections = <<"HDR", "XYZ">>]
    /\ lhRes.err = "BadLeptonFile" /\ ~lhRes.returned

\* The fixed header of the file says 'MS' in bytes 8..9 and has bit 0x80 of byte 14 set.
ExtendedFlagsPresent(d) == d.ms = <<77, 83>> /\ BitAnd(d.flags, 128) # 0

\* C11 (amended): in a header ReadLeptonHeader returns, when bytes 8..9 are 'M','S' and
\* bit 0x80 of byte 14 is set, bit 0x01 of byte 14 decides the 16-bit DC estimate and bit
\* 0x02 the 16-bit advanced prediction; in every other case both modes are enabled; and
\* the bytes 8..9 and 14 never make a file with a good rest be refused.
C11_SixteenBitFlags ==
    lhPc = "done" =>
        /\ lhRes.returned /\ ExtendedFlagsPresent(lhDesc) =>
              /\ lhRes.Use16BitDCEstimate = (BitAnd(lhDesc.flags, 1) # 0)
              /\ lhRes.Use16BitAdvPredict = (BitAnd(lhDesc.flags, 2) # 0)
        /\ lhRes.returned /\ ~ExtendedFlagsPresent(lhDesc) =>
              lhRes.Use16BitDCEstimate /\ lhRes.Use16BitAdvPredict
        /\ [lhDesc EXCEPT !.ms = PlainLepton.ms, !.flags = PlainLepton.flags, !.sections = <<"HDR">>]
               = PlainLepton /\ lhDesc.sections \in {<<"HDR">>, <<"HDR", "P0D">>}
              => lhRes.returned /\ lhRes.err = "none"

\* A header with 'MS' and flags 0x81 has been returned: DC estimate on 16 bits, advanced
\* prediction not.
C11_Witness ==
    /\ lhPc = "done" /\ lhRes.returned /\ lhDesc.ms = <<77, 83>> /\ lhDesc.flags = 129
    /\ lhRes.Use16BitDCEstimate /\ ~lhRes.Use16BitAdvPredict

\* C11 as stated: with 'MS' and bit 0x80 of byte 14, bit 0x01 decides the 16-bit advanced
\* prediction and bit 0x02 the 16-bit DC estimate; in every other case the file is
\* accepted with both modes enabled.
C11_AsStated ==
    lhPc = "done" /\ lhRes.returned =>
        IF ExtendedFlagsPresent(lhDesc)
        THEN /\ lhRes.Use16BitAdvPredict = (BitAnd(lhDesc.flags, 1) # 0)
             /\ lhRes.Use16BitDCEstimate = (BitAnd(lhDesc.flags, 2) # 0)
        ELSE lhRes.Use16BitDCEstimate /\ lhRes.Use16BitAdvPredict

\* C12: for any interleaving of well-formed blocks of several partitions, the data the
\* demultiplexer returns for a partition is the concatenation of that partition's
\* payloads in stream order, whatever the blocks of the other partitions are; and the
\* demultiplexed output of multiplexSingleThread(d) is d for partition 0.
C12_Demultiplex ==
    /\ dmPc = "demuxed" =>
          \A p \in 0..(dmN - 1) : dmOut[p] = PartitionPayloads(dmBlocks, p)
    /\ dmPc = "demuxed single" => dmOut[0] = dmBlocks[1].payload

\* Three blocks, the first and the last of partition 1 around one of partition 0, have
\* been taken apart.
C12_Witness ==
    /\ dmPc = "demuxed" /\ Len(dmBlocks) = 3
    /\ dmBlocks[1].pid = 1 /\ dmBlocks[2].pid = 0 /\ dmBlocks[3].pid = 1
    /\ dmOut[1] = dmBlocks[1].payload \o dmBlocks[3].payload /\ dmOut[0] = dmBlocks[2].payload

\* The bytes of the scan that the file holds, and the bytes a reader needs for the
\* blocks 1..b of the scan.
ScanBytesHeld(d) == Len(ScanBytes(d, 1, 0)) - d.cut
ScanBytesNeeded(d, b) == Len(ScanBytes([d EXCEPT !.blocks = b], 1, 0))

\* The file has a good header, whole, and ends before the last bit of its scan.
ScanTruncated(d) ==
    /\ d \in ScanFiles /\ d.tail = <<>>
    /\ ScanBytesHeld(d) >= 0 /\ ScanBytesHeld(d) < ScanBytesNeeded(d, d.blocks)

\* The first block, counted from 0, that has bits beyond the end of the file.
FirstBlockCut(d) ==
    CHOOSE b \in 0..(d.blocks - 1) :
        /\ ScanBytesHeld(d) < ScanBytesNeeded(d, b + 1)
        /\ \A c \in 1..b : ScanBytesHeld(d) >= ScanBytesNeeded(d, c)

\* C13: when the input of a baseline scan ends before the scan is complete, ReadJpegFile
\* returns a result and no error, with the early-EOF flag set and, as the maximum block
\* position of the component, the position of the block that was being decoded when the
\* end of the input was reached.
C13_EarlyEof ==
    jpPc = "read" /\ ScanTruncated(jpDesc) =>
        /\ jpRead.err = "none" /\ jpRead.returned /\ jpRead.EarlyEOF
        /\ jpRead.MaxDPos = FirstBlockCut(jpDesc)

\* A file cut inside its second block has been read: early EOF, maximum position 1.
C13_Witness ==
    /\ jpPc = "read" /\ ScanTruncated(jpDesc) /\ FirstBlockCut(jpDesc) = 1
    /\ jpRead.err = "none" /\ jpRead.returned /\ jpRead.EarlyEOF /\ jpRead.MaxDPos = 1

\* The scan is over on both sides: the reader got ScanCompleted and the writer returned.
ScanOver == scSta = "ScanCompleted" /\ scWritten.done

\* C15: in a scan with a restart interval and no early EOF, the scan writer writes a
\* restart marker after exactly the coded units after which the reader's position state
\* reported RestartIntervalExpired, and never after the last coded unit of the scan.
C15_RestartMarkers ==
    (ScanOver /\ scRead.RestartInterval > 0)
        => /\ scWritten.rst = scExpired
           /\ Len(scWritten.blocks) \notin scWritten.rst

\* A scan of several components ended with restart markers written inside it.
C15_Witness ==
    /\ ScanOver /\ Len(scFrame.scan) > 1 /\ scFrame.dri = 1
    /\ scWritten.rst # {} /\ scWritten.rst = scExpired

\* The blocks the JPEG frame codes in the scan: every block of the MCU grid for a scan of
\* several components, the blocks that cover the image for a scan of one component.
CodedBlocks(jh) ==
    IF Len(jh.ScanComponentOrder) = 1
    THEN LET cmp == jh.ScanComponentOrder[1]
         IN  {<<cmp, (y * jh.CmpInfo[cmp].Bch) + x>> :
                  x \in 0..(jh.CmpInfo[cmp].Nch - 1), y \in 0..(jh.CmpInfo[cmp].Ncv - 1)}
    ELSE UNION {{<<jh.ScanComponentOrder[i], d>> :
                    d \in 0..((jh.CmpInfo[jh.ScanComponentOrder[i]].Bch
                                  * jh.CmpInfo[jh.ScanComponentOrder[i]].Bcv) - 1)} :
                i \in 1..Len(jh.ScanComponentOrder)}

\* C16: the (component, block index) pairs the reader's JpegPositionState visits are, in
\* order, the ones the scan writer writes, and when it reports ScanCompleted it has visited
\* every coded block of the scan exactly once.
C16_ScanOrder ==
    /\ scWritten.done
          => /\ Len(scVisited) <= Len(scWritten.blocks)
             /\ scVisited = SubSeq(scWritten.blocks, 1, Len(scVisited))
             /\ scSta = "ScanCompleted" => scVisited = scWritten.blocks
    /\ scSta = "ScanCompleted"
          => /\ {scVisited[k] : k \in 1..Len(scVisited)} = CodedBlocks(scWrite)
             /\ Len(scVisited) = Cardinality(CodedBlocks(scWrite))

\* A scan of three components, the first sampled 2x1 over two MCU columns, read to its end.
C16_Witness ==
    /\ ScanOver /\ scFrame.sampling = <<33, 17, 17>> /\ scFrame.scan = <<1, 2, 3>>
    /\ scFrame.width = 17 /\ scFrame.height = 8
    /\ Len(scVisited) = 8

\* The fill bits of a scan as the file holds them, in stream order: the pad value of every
\* non-empty run, those before the restart markers first, the one at the end of the scan last.
RECURSIVE FillRuns(_, _)
FillRuns(d, first) ==
    LET last == IF d.dri = 0 \/ first + d.dri > d.blocks THEN d.blocks ELSE first + d.dri - 1
        run  == IF Len(IntervalBits(d, first, last)) % 8 = 0 THEN <<>>
                ELSE IF last = d.blocks THEN <<d.padEnd>> ELSE <<d.padRst>>
    IN  IF last = d.blocks THEN run ELSE run \o FillRuns(d, last + 1)

\* A complete scan with bytes after it.
ScanComplete(d) == d \in ScanFiles /\ d.cut = 0 /\ d.tail # <<>>

\* C20: the pad bit of a baseline file is the value of its first non-empty run of fill
\* bits, and a file with a later run that differs from it, at a restart marker or at the
\* end of the scan, is rejected with InvalidPadding.
C20_PadBit ==
    (jpPc = "read" /\ ScanComplete(jpDesc))
        => LET runs == FillRuns(jpDesc, 1)
           IN  IF runs = <<>> THEN jpRead.err = "none" /\ jpRead.PadBit = -1
               ELSE IF \A k \in 1..Len(runs) : runs[k] = runs[1]
               THEN jpRead.err = "none" /\ jpRead.PadBit = 255 * runs[1]
               ELSE jpRead.err = "InvalidPadding"

\* Three runs of zero fill bits, two of them at restart markers: the pad bit is 0x00.
C20_Witness ==
    /\ jpPc = "read" /\ ScanComplete(jpDesc)
    /\ FillRuns(jpDesc, 1) = <<0, 0, 0>>
    /\ jpRead.err = "none" /\ jpRead.PadBit = 0

\* The longest EOB run the AC table of the scan can express: (2 << k) - 1 for the largest
\* EOBn symbol (k * 16) it holds.
LongestRun(scan) ==
    (2 * Pow2(MaxOf({k \in 0..14 : \E j \in 1..Len(scan.symbols) : scan.symbols[j] = k * 16}))) - 1

\* C17: in a progressive AC scan, a block that is empty in the band and comes right after
\* an EOB run shorter than the longest run the AC table can express makes the reader fail
\* with UnsupportedJpeg; and the scan writer, run on a scan the reader has accepted, writes
\* the symbols and bits that were read.
C17_OptimalEobRuns ==
    /\ (pgLast.read /\ pgLast.empty /\ pgLast.follows >= 1 /\ pgLast.follows < LongestRun(pgScan))
          => pgErr = "UnsupportedJpeg"
    /\ (pgSta = "ScanCompleted" /\ pgOut.done) => (pgOut.err = "none" /\ pgOut.out = pgStream)

\* An empty block after a run of 2 where the table has runs up to 7: rejected.
C17_Witness ==
    /\ pgLast.read /\ pgLast.empty /\ pgLast.follows = 2 /\ LongestRun(pgScan) = 7
    /\ pgErr = "UnsupportedJpeg"

\* C18: in a progressive AC scan with a restart interval, a block whose EOB run is longer
\* than the blocks left in the restart interval makes the reader fail with UnsupportedJpeg,
\* the reader has no run pending when it passes a restart marker, and the writer has none
\* pending when it pads for a restart marker or at the end of the scan.
C18_RunsWithinIntervals ==
    /\ (pgLast.read /\ pgRead.RestartInterval > 0 /\ pgLast.run > pgLast.left)
          => pgErr = "UnsupportedJpeg"
    /\ pgLast.boundary => pgLast.pending = 0
    /\ pgOut.done => \A k \in 1..Len(pgOut.pads) : pgOut.pads[k] = 0

\* A run of 4 met with 2 blocks left in the restart interval: rejected.
C18_Witness ==
    /\ pgLast.read /\ pgRead.RestartInterval = 2 /\ pgLast.run = 4 /\ pgLast.left = 2
    /\ pgErr = "UnsupportedJpeg"

\* The correction bits of the bands of an image, block after block: one for every
\* coefficient that was not zero before the scan.
RECURSIVE ProducedBits(_, _, _)
ProducedBits(image, dpos, blocks) ==
    IF dpos >= blocks THEN <<>>
    ELSE [k \in 1..Len(SelectSeq(image[dpos], LAMBDA c : c >= 2)) |->
             SelectSeq(image[dpos], LAMBDA c : c >= 2)[k] % 2]
             \o ProducedBits(image, dpos + 1, blocks)

\* C19: writing an AC refinement scan, after every block a correction-bit buffer that is
\* not empty goes with a pending EOB run, no buffered bit is cleared unwritten, and the
\* bits come out in the order they were produced.
C19_CorrectionBitsKept ==
    (pgOut.done /\ pgScan.refine /\ pgOut.err = "none")
        => /\ \A k \in 1..Len(pgOut.between) :
                  pgOut.between[k].bits # <<>> => pgOut.between[k].eobRun > 0
           /\ pgOut.dropped = 0
           /\ [k \in 1..Len(SelectSeq(pgOut.out, LAMBDA e : e[1] = "bit")) |->
                  SelectSeq(pgOut.out, LAMBDA e : e[1] = "bit")[k][2]]
                 = ProducedBits(pgImage, 0, pgScan.blocks)

\* A refinement scan with a restart interval written with correction bits buffered across
\* a block boundary.
C19_Witness ==
    /\ pgOut.done /\ pgScan.refine /\ pgOut.err = "none" /\ pgScan.dri = 2
    /\ \E k \in 1..Len(pgOut.between) : Len(pgOut.between[k].bits) >= 2
    /\ Len(ProducedBits(pgImage, 0, pgScan.blocks)) >= 3

\* C14: once the encoder has written a block and the decoder has read it, the two Models
\* hold the same branches, the two NeighborSummary values stored for the block are the
\* same, and the decoder chose for the block the branches the encoder chose, whatever
\* blocks the encoder accepted.
C14_ModelsAgree ==
    (~cfPending /\ Len(cfImage) > 0) =>
        /\ cfDec.err = "none"
        /\ cfDec.model = cfEnc.model
        /\ cfDec.ns = cfEnc.ns
        /\ cfDec.cache = cfEnc.cache
        /\ cfDec.keys = cfEnc.keys

\* C14: four blocks with 7x7 and edge coefficients were written and read, and the two
\* sides agree.
C14_Witness ==
    /\ ~cfPending /\ Len(cfImage) >= 4 /\ cfDec.err = "none"
    /\ \A i \in 1..4 : cfImage[i][10] # 0
    /\ cfDec.image = cfImage
    /\ cfDec.model = cfEnc.model /\ cfDec.cache = cfEnc.cache /\ cfDec.keys = cfEnc.keys

\* The entropy-coded bytes from index i on with every FF 00 pair taken as one FF byte, up
\* to a marker (FF and a byte other than 00) or the end of the bytes; a last FF with
\* nothing after it counts as a byte.
RECURSIVE UnstuffedFrom(_, _, _)
UnstuffedFrom(data, i, acc) ==
    IF i >= Len(data) THEN [bytes |-> acc, marker |-> FALSE]
    ELSE IF data[i + 1] # 255 THEN UnstuffedFrom(data, i + 1, Append(acc, data[i + 1]))
    ELSE IF i + 1 >= Len(data) THEN [bytes |-> Append(acc, 255), marker |-> FALSE]
    ELSE IF data[i + 2] = 0 THEN UnstuffedFrom(data, i + 2, Append(acc, 255))
    ELSE [bytes |-> acc, marker |-> TRUE]

\* Bit j of a byte string, the most significant bit of a byte first, zero after its end.
StreamBit(bytes, j) ==
    IF j \div 8 < Len(bytes) THEN (bytes[(j \div 8) + 1] \div Pow2(7 - (j % 8))) % 2 ELSE 0

RECURSIVE StreamBits(_, _, _)
StreamBits(bytes, j, n) ==
    IF n = 0 THEN 0
    ELSE StreamBit(bytes, j) * Pow2(n - 1) + StreamBits(bytes, j + 1, n - 1)

\* What Read(n) has to return when `have` bits of the segment starting at seg were taken.
ExpectedRead(data, seg, have, n) ==
    LET u    == UnstuffedFrom(data, seg, << >>)
        need == (have + n + 7) \div 8
    IN  IF need > Len(u.bytes) /\ u.marker
        THEN [err |-> "InvalidResetCode", val |-> 0, eof |-> FALSE]
        ELSE [err |-> "none", val |-> StreamBits(u.bytes, have, n),
              eof |-> need > Len(u.bytes)]

\* C21: VerifyResetCode, called when k markers were consumed and two bytes are left,
\* succeeds exactly when they are FF and D0 + (k mod 8) and fails with InvalidResetCode
\* otherwise; on success the counter is k + 1, the bit register is empty and the reader
\* stands behind the marker, so that the next Read returns the bits of the byte there.
C21_ResetCode ==
    /\ rdErr # "idle" => rdR.cpos = rdK
    /\ (rdLast.op = "VerifyResetCode" /\ rdLast.pre.pos + 2 <= Len(rdData)) =>
          IF /\ rdData[rdLast.pre.pos + 1] = 255
             /\ rdData[rdLast.pre.pos + 2] = 208 + (rdLast.k % 8)
          THEN /\ rdLast.err = "none"
               /\ rdK = rdLast.k + 1
               /\ rdR.bits = 0 /\ rdR.bitsLeft = 0
               /\ rdR.pos = rdLast.pre.pos + 2 /\ rdSeg = rdR.pos
          ELSE rdLast.err = "InvalidResetCode" /\ rdK = rdLast.k
    /\ (/\ rdLast.op = "Read" /\ rdLast.k > 0 /\ rdLast.have = 0 /\ rdLast.n <= 8
        /\ rdLast.seg < Len(rdData) /\ rdData[rdLast.seg + 1] # 255) =>
          /\ rdData[rdLast.seg - 1] = 255
          /\ rdData[rdLast.seg] = 208 + ((rdLast.k - 1) % 8)
          /\ rdLast.err = "none"
          /\ rdLast.val = rdData[rdLast.seg + 1] \div Pow2(8 - rdLast.n)

\* C21: the ninth marker of a scan, numbered 0 again, was consumed and the byte behind it
\* was read.
C21_Witness ==
    /\ rdLast.op = "Read" /\ rdLast.k = 9 /\ rdLast.err = "none" /\ rdLast.n = 8
    /\ rdLast.val = 165 /\ rdData[rdLast.seg] = 208

\* C22: Read(n) returns the next n bits of the unstuffed bytes of the entropy segment,
\* the most significant first; it fails with InvalidResetCode exactly when the bits asked
\* for lie behind an FF followed by a byte other than 00; behind the end of the bytes it
\* returns zero bits without error, and IsEOF is true from the first such Read on.
C22_Read ==
    /\ rdLast.op = "Read" =>
          LET e == ExpectedRead(rdData, rdLast.seg, rdLast.have, rdLast.n)
          IN  /\ rdLast.err = e.err
              /\ e.err = "none" => (rdLast.val = e.val /\ (e.eof => rdR.eof))
              /\ (e.err = "none" /\ ~e.eof /\ ~rdLast.pre.eof) => ~rdR.eof
    /\ rdEof => (rdErr # "idle" /\ rdR.eof)
    /\ (rdErr = "none" /\ rdR.eof) => rdR.pos >= Len(rdData)

\* C22: a Read behind the end of bytes that hold a stuffed FF: it returned zero bits
\* after an earlier Read had set IsEOF.
C22_Witness ==
    /\ rdLast.op = "Read" /\ rdLast.err = "none" /\ rdLast.pre.eof /\ rdR.eof
    /\ rdLast.val = 0 /\ rdLast.n = 11 /\ rdLast.have >= 16
    /\ Len(rdData) >= 2 /\ rdData[1] = 255 /\ rdData[2] = 0

\* C22: a Read that met a marker inside the entropy segment.
C22_WitnessMarker ==
    /\ rdLast.op = "Read" /\ rdLast.err = "InvalidResetCode" /\ rdLast.have > 0

\* C23: a Branch that starts at 0x0101 and is only changed by RecordAndUpdateBit keeps
\* both count bytes in 1..255, and its GetProbability is in 1..255 and is the floor of
\* 256 * false / (false + true), false being the high byte and true the low byte.
C23_CountsStayPositive ==
    LET false == bnCounts \div 256
        true  == bnCounts % 256
    IN  /\ bnCounts \in 0..65535
        /\ false \in 1..255 /\ true \in 1..255
        /\ GetProbability(bnCounts) \in 1..255
        /\ GetProbability(bnCounts) = (256 * false) \div (false + true)

\* C23: both counts were at 255 and the false count was incremented once more: the
\* counts were halved to 0x81 and 0x80.
C23_Witness ==
    bnPrev = 65535 /\ ~bnBit /\ bnCounts = 33152 /\ GetProbability(bnCounts) = 128

\* C24: for an actual DC and a predicted DC in -1024 .. 1024 the residual the encoder
\* computes with advPredictOrUnpredictDC lies in -1024 .. 1024, and the decoder's
\* advPredictOrUnpredictDC on that residual and the same prediction returns the actual DC.
C24_DcRoundTrip ==
    /\ dcPc \in {"written", "read"} => (dcResidual >= -1024 /\ dcResidual <= 1024)
    /\ dcPc = "read" => dcFinal = dcActual

\* C24: a DC of 1024 predicted as -1024: the difference 2048 was wrapped to -1 and the
\* decoder wrapped -1025 back to 1024.
C24_Witness ==
    dcPc = "read" /\ dcActual = 1024 /\ dcPredicted = -1024 /\ dcResidual = -1 /\ dcFinal = 1024

\* C25: a coefficient of magnitude at most 2047, written by writeLengthSignCoef (for a DC
\* or a 7x7 place) or by WriteEdgeCoefficient and read back by readLengthSignCoef or
\* ReadEdgeCoefficient with the same context on an equal Model, comes back unchanged, the
\* reader taking every coded bit on the branch the writer used; a coefficient of a longer
\* magnitude is refused by the writer with CoefficientOutOfRange.
C25_CoefRoundTrip ==
    LET magnitude == IF ccCoef < 0 THEN -ccCoef ELSE ccCoef
    IN  /\ ccPc = "refused" => (magnitude > 2047 /\ ccEnc.err = "CoefficientOutOfRange")
        /\ ccPc \in {"written", "read"} => (magnitude <= 2047 /\ ccEnc.err = "none")
        /\ ccPc = "read" =>
              /\ ccDec.err = "none"
              /\ ccDec.val = ccCoef
              /\ ccDec.pos = Len(ccEnc.events)
              /\ ccDec.keys = [i \in 1..Len(ccEnc.events) |-> ccEnc.events[i][1]]
              /\ ccDec.model = ccEnc.model

\* C25: the edge coefficient -2047 came back from Models that had coded a coefficient
\* before, at a place with a noise threshold.
C25_Witness ==
    /\ ccPc = "read" /\ ccCtx.kind = "edge" /\ ccCtx.warm # 0 /\ ccCoef = -2047
    /\ ccQt.MinNoiseThreshold[ccCtx.at] > 0
    /\ ccDec.val = -2047 /\ ccDec.err = "none" /\ Len(ccEnc.events) >= 20

\* C25: a 7x7 coefficient of 12 bits was refused.
C25_WitnessRefused ==
    ccPc = "refused" /\ ccCtx.kind = "coef" /\ ccCoef = 2048 /\ ccEnc.events = << >>

\* The bits of a written edge coefficient coded through ResidualNoiseCounts of CountsX.
ResidualNoiseEvents(events) == {e \in 1..Len(events) : events[e][1][1] = 7}

\* C26: at each of the 14 edge positions with a quantizer value q >= 1, the threshold that
\* NewQuantizationTables stores is max(0, bit length of ceil(FREQ_MAX[i] / q) - 7), stated
\* without the division: it is 0 with FREQ_MAX[i] <= 127 q, or it is t in 1..3 with
\* (2^(t+6) - 1) q < FREQ_MAX[i] <= (2^(t+7) - 1) q; and WriteEdgeCoefficient codes at most
\* that many bits, so at most 3, through ResidualNoiseCounts, on its branches 0..2.
C26_NoiseThreshold ==
    /\ qnPc \in {"tables", "written"} =>
          \A i \in 0..13 :
              LET q == GetQTransposed(qnQt, EdgeCoordTR(i))
                  t == qnQt.MinNoiseThreshold[i]
              IN  q >= 1 =>
                     /\ t \in 0..3
                     /\ \/ t = 0 /\ FreqMax[i + 1] <= 127 * q
                        \/ /\ t > 0
                           /\ (Pow2(t + 6) - 1) * q < FreqMax[i + 1]
                           /\ FreqMax[i + 1] <= (Pow2(t + 7) - 1) * q
    /\ qnPc = "written" =>
          /\ qnEnc.err = "none"
          /\ Cardinality(ResidualNoiseEvents(qnEnc.events))
                 <= qnQt.MinNoiseThreshold[qnPos]
          /\ Cardinality(ResidualNoiseEvents(qnEnc.events)) <= 3
          /\ \A e \in ResidualNoiseEvents(qnEnc.events) :
                 qnEnc.events[e][1][Len(qnEnc.events[e][1])] \in 0..2

\* C26: with q = 8 at the fourth edge position ceil(1020 / 8) = 128 has 8 bits, the
\* threshold stored is 1, and the lowest bit of -1024 went through ResidualNoiseCounts.
C26_Witness ==
    /\ qnPc = "written" /\ qnPos = 3 /\ GetQTransposed(qnQt, EdgeCoordTR(3)) = 8
    /\ qnQt.MinNoiseThreshold[3] = 1 /\ qnCoef = -1024
    /\ Cardinality(ResidualNoiseEvents(qnEnc.events)) = 1

\* C26: with q = 1 the threshold is 3 and the three low bits of 2047 went through
\* ResidualNoiseCounts.
C26_WitnessThree ==
    /\ qnPc = "written" /\ qnQt.MinNoiseThreshold[qnPos] = 3 /\ qnCoef = 2047
    /\ Cardinality(ResidualNoiseEvents(qnEnc.events)) = 3

\* The MCU row of block row y of component c.
McuRowOf(c, y) == y \div rwGeom.ratio[c + 1]

\* C27: in the rows that getRowSpecFromIndex yields for increasing index, the rows of an
\* MCU row come with the last component first and component 0 last; a row is marked
\* skipped exactly when its currY is at or beyond the component's coded height; and when
\* done is reported for a loop over all luma rows, every row of every component below its
\* coded height was yielded exactly once.
C27_RowOrder ==
    /\ \A k \in 1..(Len(rwRows) - 1) :
          LET a == rwRows[k]
              b == rwRows[k + 1]
          IN  \/ McuRowOf(a[1], a[2]) < McuRowOf(b[1], b[2])
              \/ /\ McuRowOf(a[1], a[2]) = McuRowOf(b[1], b[2])
                 /\ a[1] > b[1] \/ (a[1] = b[1] /\ a[2] < b[2])
    /\ (rwPc # "idle" /\ rwSpec # NoRowSpec) =>
          /\ rwSpec.component < Len(rwGeom.ratio)
          /\ rwSpec.skip <=> rwSpec.currY >= rwMaxCoded[rwSpec.component + 1]
    /\ (rwPc = "done" /\ rwMinY = 0 /\ rwMaxY = Bcv(rwGeom)[1]) =>
          \A c \in 0..(Len(rwGeom.ratio) - 1) : \A y \in 0..(rwMaxCoded[c + 1] - 1) :
              Cardinality({k \in 1..Len(rwRows) : rwRows[k] = << c, y >>}) = 1

\* C27: the decoder reported done with a row of the last component below its coded height
\* never yielded: three components of one block row to the MCU row, coded heights 1, 1, 3.
C27_Witness ==
    /\ rwPc = "done" /\ rwWho = "decode" /\ rwMaxCoded = << 1, 1, 3 >>
    /\ rwRows = << <<2, 0>>, <<1, 0>>, <<0, 0>>, <<2, 1>> >>

\* C28: in one EncodeRowRange or DecodeRowRange call the first row processed of a component
\* has the tables NoNeighbors at x = 0 and LeftOnly elsewhere, every later row TopOnly at
\* x = 0 and AllNeighbors elsewhere; and a block (x, y) whose tables have the above
\* neighbor gets as above summary the one stored for block (x, y - 1) of its component.
C28_NeighborTables ==
    rwLast # NoRow =>
        /\ rwLast.first <=>
              Cardinality({k \in 1..Len(rwRows) : rwRows[k][1] = rwLast.component}) = 1
        /\ Len(rwLast.blocks) >= 1
        /\ \A b \in 1..Len(rwLast.blocks) :
              LET blk == rwLast.blocks[b]
              IN  /\ blk.x = b - 1
                  /\ blk.pt = IF rwLast.first
                              THEN (IF blk.x = 0 THEN NoNeighbors ELSE LeftOnly)
                              ELSE (IF blk.x = 0 THEN TopOnly ELSE AllNeighbors)
                  /\ (blk.pt.abovePresent \/ blk.pt.allPresent) =>
                         blk.above = << blk.x, rwLast.currY - 1 >>

\* C28: the third row of a component in a call, its second block with both neighbors and
\* the summary of the block above it.
C28_Witness ==
    /\ rwLast # NoRow /\ ~rwLast.first /\ rwLast.currY = 2 /\ Len(rwLast.blocks) = 2
    /\ rwLast.blocks[2].pt = AllNeighbors /\ rwLast.blocks[2].above = << 1, 1 >>
    /\ rwLast.blocks[2].left = << 0, 2 >>

\* The cap of the claim: OriginalFileSize less the prefix garbage, SOI, the raw header and
\* the garbage, the garbage counting as 0 when it is all zeros.
ClaimedScanCap(h) ==
    h.OriginalFileSize - Len(h.PrefixGarbage) - 2 - Len(h.RawJpegHeader)
        - (IF AllZeros(h.GarbageData) THEN 0 ELSE Len(h.GarbageData))

\* C29: with a header that marks early EOF the baseline scan writer emits, whatever the
\* blocks, at most OriginalFileSize - prefix garbage - 2 - raw header - garbage bytes of
\* scan data and restart markers.
C29_ScanCap ==
    capPc = "written" => Len(capScan) <= ClaimedScanCap(capHeader)

\* C29 where the cap of the claim is not negative: the writer's maxScanBytes is that cap
\* and the scan writer stays within it.
C29_CapNotNegative ==
    (capPc = "written" /\ ClaimedScanCap(capHeader) >= 0) =>
        /\ capLimit = ClaimedScanCap(capHeader)
        /\ Len(capScan) <= capLimit

\* C29: the cap of the claim is -1 and the scan writer emitted a scan with a restart
\* marker, the output file being filled up to OriginalFileSize.
C29_Witness ==
    /\ capPc = "written" /\ ClaimedScanCap(capHeader) = -1 /\ capLimit = -1
    /\ Len(capScan) >= 4
    /\ \E i \in 1..(Len(capScan) - 1) : capScan[i] = 255 /\ capScan[i + 1] = MarkerRST0
    /\ Len(capOut) = capHeader.OriginalFileSize
    /\ capHeader.GarbageData = EOI

\* The first bytes of buf, at most size of them.
AtMost(buf, size) == IF size < Len(buf) THEN SubSeq(buf, 1, size) ELSE buf

\* The bytes the partitions idx, idx + 1, ... are to contribute, in handoff order.
RECURSIVE PartitionBytes(_)
PartitionBytes(idx) ==
    IF idx > Len(ptHeader.ThreadHandoffs) THEN << >>
    ELSE Bind(encodePartition(ptHeader, ptCounts, ptImages, idx).buf, LAMBDA buf :
             AtMost(buf, ptHeader.ThreadHandoffs[idx].SegmentSize)) \o PartitionBytes(idx + 1)

C30_WitnessCut ==
    /\ ptPc = "written" /\ ptRes.err = "none"
    /\ \E idx \in 1..Len(ptHeader.ThreadHandoffs) :
          /\ ptHeader.ThreadHandoffs[idx].SegmentSize > 0
          /\ Len(encodePartition(ptHeader, ptCounts, ptImages, idx).buf)
                 > ptHeader.ThreadHandoffs[idx].SegmentSize

====
